---------------------------- MODULE Spec2Model ----------------------------
(***************************************************************************)
(* BookAnimator (src/App.js): the scene generation pipeline of the         *)
(* "Animation Studio" React application.                                   *)
(*                                                                         *)
(* src/App.js holds two builds of the application one after the other:     *)
(*   build 1 (lines 1-428):   text-file ingestion, simulated generation,   *)
(*                            projects kept in React state (useState);     *)
(*   build 2 (lines 429-1116): PDF ingestion chained into cover            *)
(*                            generation, generation through the remote    *)
(*                            service, projects kept by useLocalStorage.   *)
(* The variable `build` says which of the two is running.                  *)
(*                                                                         *)
(* Strings the code inspects character by character (the document text)    *)
(* are sequences of one-character strings; JavaScript objects are          *)
(* functions from field names to values, an absent field being a name      *)
(* outside the DOMAIN; object spread is Merge.                             *)
(***************************************************************************)
EXTENDS Integers, Sequences, FiniteSets, TLC

(***************************************************************************)
(* Bounds of the model.                                                    *)
(***************************************************************************)
\* projects ever created (createNewProject draws a fresh id each time)
MaxProjects == 1
\* asynchronous handlers (ingestions, generation attempts) in flight at once
MaxInFlight == 2
\* asynchronous handlers the user starts in one session
MaxStarts == 4
\* handlers started in a behaviour of the regeneration specification
MaxRegenStarts == 5
\* handlers started in a behaviour of the second-upload specification
MaxReuploadStarts == 3
\* the same in build 1, where three simulated generations fit in between
MaxSimulatedStarts == 5
\* handlers started in a behaviour of the specification with a service that
\* answers
MaxLiveStarts == 3
\* pages of the projects the navigation-list specification derives lists for
MaxNavPages == 8
\* characters of the story texts of the repetition specification
MaxRepeatTextLen == 3
\* calls of buildApiPromptText in a behaviour of the prompt-builder specification
MaxBuilderCalls == 2
\* projects in a list saved in localStorage in the loading specification
MaxStoredProjects == 2
\* characters of an uploaded text in the ingestion specification
MaxTextLen == 5
\* characters of a PDF page in the ingestion specification
MaxPageLen == 1

(***************************************************************************)
(* Characters and strings.                                                 *)
(***************************************************************************)
NL == "\n"
SP == " "
Chars == {"a", "b", SP, NL}

\* \s of the regular expression and the characters String.prototype.trim strips
IsWs(c) == c \in {SP, NL}

\* a faulty IsBlank: the text is tested without trim()
IsBlankUntrimmed(s) == s = <<>>

\* !text.trim()
IsBlank(s) == \A i \in 1..Len(s) : IsWs(s[i])

\* a faulty SepEnd: a lazy \s*? stops at the first "\n" that closes a match
SepEndLazy(s, i) ==
    IF s[i] # NL THEN 0
    ELSE LET ends == {j \in (i + 1)..Len(s) :
                         /\ s[j] = NL
                         /\ \A k \in (i + 1)..j : IsWs(s[k])}
         IN  IF ends = {} THEN 0 ELSE CHOOSE j \in ends : \A k \in ends : j <= k

\* the end of the leftmost match of /\n\s*\n/ that starts at i (0: no match
\* starts at i): \s* is greedy, so the match runs to the last "\n" of the
\* whitespace run that follows text[i]
SepEnd(s, i) ==
    IF s[i] # NL THEN 0
    ELSE LET ends == {j \in (i + 1)..Len(s) :
                         /\ s[j] = NL
                         /\ \A k \in (i + 1)..j : IsWs(s[k])}
         IN  IF ends = {} THEN 0 ELSE CHOOSE j \in ends : \A k \in ends : k <= j

\* text.split(/\n\s*\n/): the pieces between successive leftmost matches
RECURSIVE SplitBlankLines(_)
SplitBlankLines(s) ==
    LET starts == {i \in 1..Len(s) : SepEnd(s, i) # 0}
    IN  IF starts = {} THEN <<s>>
        ELSE LET i == CHOOSE x \in starts : \A y \in starts : x <= y
             IN  <<SubSeq(s, 1, i - 1)>>
                    \o SplitBlankLines(SubSeq(s, SepEnd(s, i) + 1, Len(s)))

\* .filter(p => p.trim() !== '')
SelectNonBlank(ps) == SelectSeq(ps, LAMBDA p : ~IsBlank(p))

\* const pages = text.split(/\n\s*\n/).filter(p => p.trim() !== '')
PagesOf(text) == SelectNonBlank(SplitBlankLines(text))

\* String(i): the decimal rendering of a page number
DigitStr == <<"1", "2", "3", "4", "5", "6", "7", "8", "9">>
Str(i) == DigitStr[i]

(***************************************************************************)
(* JavaScript objects.                                                     *)
(***************************************************************************)
\* { ...a, ...b }
Merge(a, b) ==
    [k \in (DOMAIN a) \cup (DOMAIN b) |-> IF k \in DOMAIN b THEN b[k] ELSE a[k]]

\* {}
EmptyObj == <<>>

\* obj[key] || '' for a string-valued optional field
StrField(obj, key) == IF key \in DOMAIN obj THEN obj[key] ELSE ""

(***************************************************************************)
(* Projects and scenes.                                                    *)
(***************************************************************************)
ProjIds == 1..MaxProjects
\* currentProjectId / projectToDelete === null
NoProject == 0

\* a faulty NewProject: the project is created with its cover and end scenes
NewProjectWithScenes(id) ==
    [id |-> id, name |-> "Untitled Project", author |-> "Unknown Author",
     storyText |-> <<>>, totalPages |-> 0,
     scenes |-> [sceneId \in {"cover", "end"} |-> [status |-> "pending"]]]

\* createNewProject's newProject (createdAt plays no part in the pipeline)
NewProject(id) ==
    [id |-> id, name |-> "Untitled Project", author |-> "Unknown Author",
     storyText |-> <<>>, totalPages |-> 0, scenes |-> EmptyObj]

\* a faulty NavItemsOf: the numbering starts at String(i), not String(i + 1)
NavItemsOfZeroBased(n) ==
    <<"cover">>
    \o [i \in 1..n |-> IF i = 1 THEN "0" ELSE Str(i - 1)]
    \o <<"end">>

\* ['cover', ...Array.from({ length: totalPages }, (_, i) => String(i + 1)), 'end']
NavItemsOf(n) == <<"cover">> \o [i \in 1..n |-> Str(i)] \o <<"end">>

\* a faulty NavItems: the list is built without the totalPages > 0 test
NavItemsUnguarded(project) == NavItemsOf(project.totalPages)

\* PageNavigation's navItems: empty until the project is ingested
NavItems(project) ==
    IF project.totalPages > 0 THEN NavItemsOf(project.totalPages) ELSE <<>>

\* id => !project.scenes[id] || project.scenes[id].status !== 'completed'
NotCompleted(project, id) ==
    \/ id \notin DOMAIN project.scenes
    \/ project.scenes[id].status # "completed"

\* currentSceneData && currentSceneData.status === 'completed'
IsCompleted(project, id) == ~NotCompleted(project, id)

\* a faulty FindIndexPending: the last scene that is not completed is found
FindIndexPendingLast(items, project) ==
    LET hits == {i \in 1..Len(items) : NotCompleted(project, items[i])}
    IN  IF hits = {} THEN -1
        ELSE (CHOOSE i \in hits : \A j \in hits : i >= j) - 1

\* navItems.findIndex(NotCompleted): 0-based, -1 when nothing is found
FindIndexPending(items, project) ==
    LET hits == {i \in 1..Len(items) : NotCompleted(project, items[i])}
    IN  IF hits = {} THEN -1
        ELSE (CHOOSE i \in hits : \A j \in hits : i <= j) - 1

\* PageNavigation's firstPendingSceneIndex
FirstPendingSceneIndex(project) == FindIndexPending(NavItems(project), project)

\* a faulty IsDisabled: the button after the first pending scene is open too
IsDisabledOffByOne(project, index) ==
    /\ FirstPendingSceneIndex(project) # -1
    /\ index > FirstPendingSceneIndex(project) + 1

\* PageNavigation's isDisabled for the button at (0-based) index
IsDisabled(project, index) ==
    /\ FirstPendingSceneIndex(project) # -1
    /\ index > FirstPendingSceneIndex(project)

\* navItems.find(NotCompleted) over the effect's list; "" stands for undefined
FirstPendingScene(project) ==
    LET items == NavItemsOf(project.totalPages)
        i == FindIndexPending(items, project)
    IN  IF i = -1 THEN "" ELSE items[i + 1]

\* CompletedSceneViewer.getNextScene; "" stands for undefined
GetNextScene(project, sceneId) ==
    LET items == NavItemsOf(project.totalPages)
        hits == {i \in 1..Len(items) : items[i] = sceneId}
        \* findIndex gives -1 when the scene is not listed: navItems[0]
        next == IF hits = {} THEN 1 ELSE (CHOOSE i \in hits : TRUE) + 1
    IN  IF next <= Len(items) THEN items[next] ELSE ""

(***************************************************************************)
(* Uploaded files.  file.name's extension, file.text() for a text file,    *)
(* the text items of each page for a PDF.                                  *)
(***************************************************************************)
TxtFile(text) == [ext |-> "txt", text |-> text, pages |-> <<>>]
PdfFile(pages) == [ext |-> "pdf", text |-> <<>>, pages |-> pages]
OtherFile == [ext |-> "docx", text |-> <<"a">>, pages |-> <<>>]

\* fullText += textContent.items.map(item => item.str).join(' ') + '\n\n'
RECURSIVE PdfFullText(_)
PdfFullText(pages) ==
    IF pages = <<>> THEN <<>>
    ELSE Head(pages) \o <<NL, NL>> \o PdfFullText(Tail(pages))

\* canvas.toDataURL('image/jpeg').split(',')[1] of the first page
CoverImageBase64 == "coverJpeg"

\* the files the user has at hand in the application's specification
SampleFiles ==
    { TxtFile(<<"a">>), TxtFile(<<SP>>),
      PdfFile(<<(<<"a">>)>>), PdfFile(<<(<<SP>>)>>), OtherFile }

\* two documents of two pages, one for each build
TwoPageFiles ==
    { TxtFile(<<"a", NL, NL, "b">>), PdfFile(<<(<<"a">>), (<<"b">>)>>) }

\* every text of at most MaxTextLen characters
Texts == UNION {[1..n -> Chars] : n \in 0..MaxTextLen}

\* every page a PDF of the ingestion specification can have
PdfPages == UNION {[1..n -> Chars] : n \in 0..MaxPageLen}

\* the files of the ingestion specification: every text file, and every PDF
\* of one or two pages
AllFiles ==
    {TxtFile(text) : text \in Texts}
    \cup {PdfFile(<<p>>) : p \in PdfPages}
    \cup {PdfFile(<<p, q>>) : p \in PdfPages, q \in PdfPages}
    \cup {OtherFile}

(***************************************************************************)
(* The generation service and its answers.                                 *)
(***************************************************************************)
\* The service's answer to a request is opaque to the application but for
\* extracted_title and extracted_author.  The rest stands in scene_summary:
\* the model names the scene and says whether it was given feedback, so that
\* the result of a regeneration with feedback can be told from the result it
\* replaces.  Only an answer to a cover request carries a title or an
\* author (the task text asks for them there alone); the schema requires
\* neither, so it may carry both, one of them or none.
PromptFor(sceneId, feedback, titled, authored) ==
    LET summary == IF feedback = "" THEN "scene " \o sceneId
                   ELSE "scene " \o sceneId \o " revised"
    IN  Merge(Merge([scene_summary |-> summary],
                    IF titled THEN [extracted_title |-> "Foo"] ELSE EmptyObj),
              IF authored THEN [extracted_author |-> "Ann"] ELSE EmptyObj)

\* JSON.stringify of a prompt
JSONStringify(prompt) ==
    "{\"scene_summary\":\"" \o prompt.scene_summary \o "\""
    \o (IF "extracted_title" \in DOMAIN prompt
        THEN ",\"extracted_title\":\"" \o prompt.extracted_title \o "\""
        ELSE "")
    \o (IF "extracted_author" \in DOMAIN prompt
        THEN ",\"extracted_author\":\"" \o prompt.extracted_author \o "\""
        ELSE "")
    \o "}"

\* the prompts the service can describe
Prompts ==
    {PromptFor(sceneId, feedback, titled, authored) :
        sceneId \in {"cover", "end"} \cup {DigitStr[i] : i \in 1..Len(DigitStr)},
        feedback \in {"", "bigger smile"},
        titled \in BOOLEAN, authored \in BOOLEAN}

\* the JSON texts of these prompts, each with the value it denotes
JsonTexts == {[text |-> JSONStringify(v), value |-> v] : v \in Prompts}

\* a candidate text that is no JSON
NotJson == "Sorry, I cannot"

\* JSON.parse(jsonText): ok is FALSE where it throws a SyntaxError
JSONParse(jsonText) ==
    LET hits == {e \in JsonTexts : e.text = jsonText}
    IN  IF hits = {} THEN [ok |-> FALSE, value |-> EmptyObj]
        ELSE [ok |-> TRUE, value |-> (CHOOSE e \in hits : TRUE).value]

\* What fetch can resolve to for a request about sceneId with feedback.  The
\* request asks for JSON of responseSchema (an OBJECT), so a candidate's text
\* that parses is taken to parse to an object; the text that does not parse
\* stands for a truncated or refused answer.  The fields:
\* response.ok, status, statusText, the body text and the candidates' texts
\* (result.candidates[i].content.parts[0].text)
Responses(sceneId, feedback) ==
    { [ok |-> FALSE, status |-> "500", statusText |-> "Internal Server Error",
        body |-> "overloaded", candidates |-> <<>>],
      [ok |-> TRUE, status |-> "200", statusText |-> "OK", body |-> "",
        candidates |-> <<>>],
      [ok |-> TRUE, status |-> "200", statusText |-> "OK", body |-> "",
        candidates |-> <<NotJson>>] }
    \cup
    { [ok |-> TRUE, status |-> "200", statusText |-> "OK", body |-> "",
       candidates |-> <<JSONStringify(PromptFor(sceneId, feedback,
                                                titled, authored))>>] :
         titled \in IF sceneId = "cover" THEN BOOLEAN ELSE {FALSE},
         authored \in IF sceneId = "cover" THEN BOOLEAN ELSE {FALSE} }

\* a faulty GenerateSceneResult: a failure is swallowed, an empty prompt
\* is returned
GenerateSceneResultSwallowing(resp) ==
    IF resp.ok /\ Len(resp.candidates) > 0 /\ JSONParse(resp.candidates[1]).ok
    THEN [ok |-> TRUE, prompt |-> JSONParse(resp.candidates[1]).value,
          message |-> ""]
    ELSE [ok |-> TRUE, prompt |-> EmptyObj, message |-> ""]

\* generateScene from the answer on: the thrown message, or the parsed prompt
GenerateSceneResult(resp) ==
    IF ~resp.ok
    THEN [ok |-> FALSE, prompt |-> EmptyObj,
          message |-> "API Error: " \o resp.status \o " " \o resp.statusText
                          \o " - " \o resp.body]
    ELSE IF Len(resp.candidates) > 0
    THEN LET parsed == JSONParse(resp.candidates[1])
         IN  IF parsed.ok
             THEN [ok |-> TRUE, prompt |-> parsed.value, message |-> ""]
             ELSE [ok |-> FALSE, prompt |-> EmptyObj, message |-> "SyntaxError"]
    ELSE [ok |-> FALSE, prompt |-> EmptyObj,
          message |-> "The model returned an empty or invalid response."]

\* generateVideoFromPrompt: the simulated synthesis always gives this URL
VideoUrl == "https://storage.googleapis.com/gtv-videos-bucket/sample/ForBiggerFun.mp4"

\* parseInt(sceneId) || 999
ParseIntOr999(sceneId) ==
    LET hits == {i \in 1..Len(DigitStr) : DigitStr[i] = sceneId}
    IN  IF hits = {} THEN 999 ELSE CHOOSE i \in hits : TRUE

\* build 1's mockPrompt
MockPrompt(sceneId) ==
    [page_number |-> IF sceneId = "cover" THEN 0 ELSE ParseIntOr999(sceneId),
     scene_summary |-> "Mock animation for " \o sceneId]

(***************************************************************************)
(* Messages given to setError.                                             *)
(***************************************************************************)
MsgMissingIllustration == "Please upload an illustration for this page."
MsgEmptyDocument == "File is empty or text could not be extracted."
MsgUnsupported1 == "Unsupported file type. Please upload a text file."
MsgUnsupported2 == "Unsupported file type. Please upload a PDF layout file."
MsgPdfSetup ==
    "PDF parsing requires additional setup. Please use a text file for now."
OperationFailed(message) == "Operation failed: " \o message \o "."

(***************************************************************************)
(* The state.                                                              *)
(***************************************************************************)
VARIABLES
    build,             \* 1 or 2: which of the two builds of src/App.js runs
    projects,          \* App's `projects`: project id -> project object
    storage,           \* localStorage['animation-projects']
    created,           \* number of projects created so far (fresh ids)
    currentProjectId,  \* App's currentProjectId
    projectToDelete,   \* App's projectToDelete (its id)
    currentSceneId,    \* ProjectWorkspace's currentSceneId
    error,             \* ProjectWorkspace's error
    ui,                \* state of the component SceneGenerator shows
    tasks,             \* the asynchronous handlers in flight
    fileSet,           \* which files the user has at hand (see Files)
    budget,            \* handlers the user may still start (bound of the model)
    last,              \* what the last step did (observation only)
    probe              \* a function applied on its own: its input and result

vars == <<build, projects, storage, created, currentProjectId, projectToDelete,
          currentSceneId, error, ui, tasks, fileSet, budget, last, probe>>

\* no function has been applied on its own
NoProbe == [op |-> "none"]

\* useState's initial values in LayoutUploader (isFileParsing),
\* CompletedSceneViewer (isRegenerating) and SceneGeneratorUI (the rest);
\* image is imageBase64 in build 2 and imageFile in build 1
DefaultUI ==
    [isFileParsing |-> FALSE, isRegenerating |-> FALSE,
     image |-> "", feedback |-> "", isLoading |-> FALSE]

\* a newly mounted SceneGeneratorUI inside the component that stays mounted
FreshGenerator(u) ==
    [u EXCEPT !.image = "", !.feedback = "", !.isLoading = FALSE]

\* tasks is the sequence of the handlers in flight, oldest first
Running == 1..Len(tasks)
\* the model's bounds let one more handler start
HasRoom == Len(tasks) < MaxInFlight /\ budget > 0
\* the handler at position t has returned
Without(t) == [i \in 1..(Len(tasks) - 1) |-> IF i < t THEN tasks[i] ELSE tasks[i + 1]]

\* if (currentProjectId && currentProject): ProjectWorkspace is rendered
WorkspaceMounted(P, cpid) == cpid # NoProject /\ cpid \in DOMAIN P

\* the component SceneGenerator returns (Dashboard: no workspace at all)
ComponentOf(P, cpid, csid) ==
    IF ~WorkspaceMounted(P, cpid) THEN "Dashboard"
    ELSE IF P[cpid].storyText = <<>> THEN "LayoutUploader"
    ELSE IF IsCompleted(P[cpid], csid) THEN "CompletedSceneViewer"
    ELSE "SceneGeneratorUI"

\* where a SceneGeneratorUI is mounted: returned by SceneGenerator ("top"),
\* inside CompletedSceneViewer when isRegenerating ("nested"), or nowhere
GeneratorSlot(comp, isRegenerating) ==
    IF comp = "SceneGeneratorUI" THEN "top"
    ELSE IF comp = "CompletedSceneViewer" /\ isRegenerating THEN "nested"
    ELSE "none"

\* ProjectWorkspace's effect: the value of currentSceneId it leaves
EffectTarget(project, csid) ==
    IF build = 1
    THEN IF project.storyText # <<>> /\ ~IsCompleted(project, csid)
         THEN LET first == FirstPendingScene(project)
              IN  IF first # "" /\ first # csid THEN first ELSE csid
         ELSE csid
    ELSE IF project.storyText # <<>>
         THEN LET first == FirstPendingScene(project)
              IN  IF first # "" /\ first # csid THEN first ELSE csid
         ELSE "cover"

\* One render: which component state survives.  React keeps the state of a
\* component that stays at its place with its type and mounts a fresh one
\* otherwise; `detached` says that the component owning the running handlers
\* has been unmounted (their later setIsLoading/setIsFileParsing do nothing).
RenderStep(comp0, slot0, comp1, u) ==
    LET u1 == IF comp1 = comp0 THEN u ELSE DefaultUI
        slot1 == GeneratorSlot(comp1, u1.isRegenerating)
        same == comp1 = comp0 /\ slot1 = slot0
    IN  [comp |-> comp1, slot |-> slot1,
         ui |-> IF same THEN u1 ELSE FreshGenerator(u1),
         detached |-> ~same]

\* The renders that follow a handler's state updates (batched into one
\* render), and ProjectWorkspace's effect after it with the render it causes.
\* P, cpid, csid, err, u, T are the values the handler has set.
Settle(P, cpid, csid, err, u, T) ==
    LET comp0 == ComponentOf(projects, currentProjectId, currentSceneId)
        slot0 == GeneratorSlot(comp0, ui.isRegenerating)
        was == comp0 # "Dashboard"
        is == WorkspaceMounted(P, cpid)
        csid1 == IF was /\ is THEN csid ELSE "cover"
        err1 == IF was /\ is THEN err ELSE ""
        r1 == RenderStep(comp0, slot0, ComponentOf(P, cpid, csid1), u)
        csid2 == IF is THEN EffectTarget(P[cpid], csid1) ELSE csid1
        r2 == RenderStep(r1.comp, r1.slot, ComponentOf(P, cpid, csid2), r1.ui)
        detached == r1.detached \/ r2.detached
    IN  [currentSceneId |-> csid2,
         error |-> err1,
         ui |-> r2.ui,
         tasks |-> [t \in 1..Len(T) |->
                      [T[t] EXCEPT !.uiLive = @ /\ ~detached,
                                   !.wsLive = @ /\ is /\ was]]]

\* the primed variables of a step whose handler has set P .. T
Commit(P, cpid, ptd, csid, err, u, T) ==
    \E list \in {P} : \E flags \in {u} : \E rest \in {T} :
    \E s \in {Settle(list, cpid, csid, err, flags, rest)} :
        /\ projects' = list
        /\ storage' = list
        /\ currentProjectId' = cpid
        /\ projectToDelete' = ptd
        /\ currentSceneId' = s.currentSceneId
        /\ error' = s.error
        /\ ui' = s.ui
        /\ tasks' = s.tasks
        /\ UNCHANGED <<build, fileSet, probe>>

\* the steps the properties below look back at; the others leave "other"
Observed ==
    {"navClick", "goToNextScene", "generateRefused", "generateStarted",
     "generateFailed", "generateCommitted", "ingestCommitted", "ingestFailed",
     "fileRejected", "toggleRegenerate"}
Event(op) == IF op \in Observed THEN op ELSE "other"

\* the files the user has at hand
Files ==
    IF fileSet = "samples" THEN SampleFiles
    ELSE IF fileSet = "documents" THEN SampleFiles \cup TwoPageFiles
    ELSE AllFiles

Mounted == WorkspaceMounted(projects, currentProjectId)
Component == ComponentOf(projects, currentProjectId, currentSceneId)
\* the files the file input can be given: only LayoutUploader renders one
Offered == IF Component = "LayoutUploader" THEN Files ELSE {}
Slot == GeneratorSlot(Component, ui.isRegenerating)
CurrentProject == projects[currentProjectId]

(***************************************************************************)
(* Init: a fresh browser (nothing in localStorage), the dashboard shown.   *)
(***************************************************************************)
Init ==
    /\ build \in {1, 2}
    /\ projects = EmptyObj
    /\ storage = EmptyObj
    /\ created = 0
    /\ currentProjectId = NoProject
    /\ projectToDelete = NoProject
    /\ currentSceneId = "cover"
    /\ error = ""
    /\ ui = DefaultUI
    /\ tasks = <<>>
    /\ fileSet = "samples"
    /\ budget = MaxStarts
    /\ last = Event("init")
    /\ probe = NoProbe

(***************************************************************************)
(* The dashboard.                                                          *)
(***************************************************************************)
\* App.createNewProject
CreateNewProject ==
    /\ ~Mounted
    /\ projectToDelete = NoProject
    /\ created < MaxProjects
    /\ LET id == created + 1
       IN  /\ Commit(projects @@ (id :> NewProject(id)), id, projectToDelete,
                     currentSceneId, error, ui, tasks)
           /\ created' = id
           /\ UNCHANGED budget
           /\ last' = Event("createNewProject")

\* ProjectsDashboard's Open button: selectProject(p.id)
SelectProject(p) ==
    /\ ~Mounted
    /\ projectToDelete = NoProject
    /\ p \in DOMAIN projects
    /\ Commit(projects, p, projectToDelete, currentSceneId, error, ui, tasks)
    /\ UNCHANGED <<created, budget>>
    /\ last' = Event("selectProject")

\* PageNavigation's Dashboard button: goToDashboard
GoToDashboard ==
    /\ Mounted
    /\ Commit(projects, NoProject, projectToDelete, currentSceneId, error, ui,
              tasks)
    /\ UNCHANGED <<created, budget>>
    /\ last' = Event("goToDashboard")

\* ProjectsDashboard's delete button: deleteProject(p)
DeleteProject(p) ==
    /\ ~Mounted
    /\ projectToDelete = NoProject
    /\ p \in DOMAIN projects
    /\ Commit(projects, currentProjectId, p, currentSceneId, error, ui, tasks)
    /\ UNCHANGED <<created, budget>>
    /\ last' = Event("deleteProject")

\* ConfirmationModal's Cancel button
CancelDelete ==
    /\ ~Mounted
    /\ projectToDelete # NoProject
    /\ Commit(projects, currentProjectId, NoProject, currentSceneId, error, ui,
              tasks)
    /\ UNCHANGED <<created, budget>>
    /\ last' = Event("cancelDelete")

\* App.confirmDeleteProject
ConfirmDeleteProject ==
    /\ ~Mounted
    /\ projectToDelete # NoProject
    /\ Commit([p \in (DOMAIN projects) \ {projectToDelete} |-> projects[p]],
              currentProjectId, NoProject, currentSceneId, error, ui, tasks)
    /\ UNCHANGED <<created, budget>>
    /\ last' = Event("confirmDeleteProject")

(***************************************************************************)
(* The workspace: navigation.                                              *)
(***************************************************************************)
\* PageNavigation: a click on the button of navItems[index]
NavClick(index) ==
    /\ Mounted
    /\ index \in 0..(Len(NavItems(CurrentProject)) - 1)
    /\ ~IsDisabled(CurrentProject, index)
    /\ Commit(projects, currentProjectId, projectToDelete,
              NavItems(CurrentProject)[index + 1], error, ui, tasks)
    /\ UNCHANGED <<created, budget>>
    /\ last' = Event("navClick")

\* CompletedSceneViewer's "Go to Next Scene" button
GoToNextScene ==
    /\ Component = "CompletedSceneViewer"
    /\ GetNextScene(CurrentProject, currentSceneId) # ""
    /\ Commit(projects, currentProjectId, projectToDelete,
              GetNextScene(CurrentProject, currentSceneId), error, ui, tasks)
    /\ UNCHANGED <<created, budget>>
    /\ last' = Event("goToNextScene")

\* CompletedSceneViewer's Regenerate / Cancel button (build 2 only)
ToggleRegenerate ==
    /\ build = 2
    /\ Component = "CompletedSceneViewer"
    /\ Commit(projects, currentProjectId, projectToDelete, currentSceneId,
              error, [ui EXCEPT !.isRegenerating = ~@], tasks)
    /\ UNCHANGED <<created, budget>>
    /\ last' = Event("toggleRegenerate")

\* SceneGeneratorUI.handleImageChange and the FileReader's onloadend
HandleImageChange ==
    /\ Slot # "none"
    /\ currentSceneId # "end"
    /\ ui.image = ""
    /\ Commit(projects, currentProjectId, projectToDelete, currentSceneId,
              error, [ui EXCEPT !.image = "illustration"], tasks)
    /\ UNCHANGED <<created, budget>>
    /\ last' = Event("handleImageChange")

\* the feedback textarea, shown when isRegenerating
SetFeedback ==
    /\ Slot = "nested"
    /\ ui.feedback = ""
    /\ Commit(projects, currentProjectId, projectToDelete, currentSceneId,
              error, [ui EXCEPT !.feedback = "bigger smile"], tasks)
    /\ UNCHANGED <<created, budget>>
    /\ last' = Event("setFeedback")

(***************************************************************************)
(* Patches and their application.                                          *)
(***************************************************************************)
\* prev.map(p => p.id === projectId ? { ...p, ...updatedData } : p)
UpdateProject(base, projectId, updatedData) ==
    [p \in DOMAIN base |->
        IF p = projectId THEN Merge(base[p], updatedData) ELSE base[p]]

\* The list setProjects' updater is applied to.  Build 1: React's functional
\* update, the list of the moment.  Build 2: useLocalStorage.setValue calls
\* value(storedValue) with the storedValue of the render the handler's
\* updateProject comes from, the list of the moment the handler was started.
UpdaterBase(task) == IF build = 1 THEN projects ELSE task.prev

\* { ...project.scenes[sceneId] }: spreading undefined gives {}
SceneOf(project, sceneId) ==
    IF sceneId \in DOMAIN project.scenes THEN project.scenes[sceneId]
    ELSE EmptyObj

\* a faulty CompletedScene: the prompt is left out of the scene
CompletedSceneNoPrompt(scene, newPrompt, videoUrl) ==
    Merge(scene, [status |-> "completed", videoUrl |-> videoUrl])

\* { ...scene, status: 'completed', prompt: newPrompt, videoUrl }
CompletedScene(scene, newPrompt, videoUrl) ==
    Merge(scene, [status |-> "completed", prompt |-> newPrompt,
                  videoUrl |-> videoUrl])

\* a faulty GenerateUpdates: the result goes to the scene shown when the
\* handler resumes, not to the scene the handler was started for
GenerateUpdatesShown(project, sceneId, newPrompt, videoUrl) ==
    [scenes |-> Merge(project.scenes,
                      currentSceneId :>
                          CompletedScene(SceneOf(project, currentSceneId),
                                         newPrompt, videoUrl))]

\* SceneGeneratorUI.handleGenerate's projectUpdates
GenerateUpdates(project, sceneId, newPrompt, videoUrl) ==
    LET updatedScenes ==
            Merge(project.scenes,
                  sceneId :> CompletedScene(SceneOf(project, sceneId),
                                            newPrompt, videoUrl))
        title == StrField(newPrompt, "extracted_title")
        author == StrField(newPrompt, "extracted_author")
    IN  IF build = 2 /\ sceneId = "cover" /\ title # ""
        THEN [scenes |-> updatedScenes, name |-> title,
              author |-> IF author # "" THEN author ELSE "Unknown Author"]
        ELSE [scenes |-> updatedScenes]

(***************************************************************************)
(* Ingestion: LayoutUploader.handleFileChange.                             *)
(***************************************************************************)
\* the text the handler extracts from the file it accepted
ExtractedText(file) ==
    IF file.ext = "pdf" THEN PdfFullText(file.pages) ELSE file.text

\* const totalPages = pages.length > 0 ? pages.length : 1
TotalPagesOf(pages) == IF Len(pages) > 0 THEN Len(pages) ELSE 1

\* a faulty InitialScenes: the loop stops at i < totalPages
InitialScenesShort(pages) ==
    LET n == TotalPagesOf(pages)
    IN  [id \in {"cover", "end"} \cup {Str(i) : i \in 1..(n - 1)} |->
            IF id \in {"cover", "end"} THEN [status |-> "pending"]
            ELSE LET i == ParseIntOr999(id)
                 IN  [status |-> "pending",
                      text |-> IF i <= Len(pages) THEN pages[i] ELSE <<>>]]

\* scenes = { cover, end } and scenes[i] = { status, text: pages[i-1] || '' }
InitialScenes(pages) ==
    LET n == TotalPagesOf(pages)
    IN  [id \in {"cover", "end"} \cup {Str(i) : i \in 1..n} |->
            IF id \in {"cover", "end"} THEN [status |-> "pending"]
            ELSE LET i == ParseIntOr999(id)
                 IN  [status |-> "pending",
                      text |-> IF i <= Len(pages) THEN pages[i] ELSE <<>>]]

\* build 1's projectUpdates
TextProjectUpdates(text) ==
    [storyText |-> text, totalPages |-> TotalPagesOf(PagesOf(text)),
     scenes |-> InitialScenes(PagesOf(text)),
     name |-> "My Animation Project", author |-> "Author Name"]

\* build 2's initialProjectState
InitialProjectState(project, text) ==
    Merge(project, [storyText |-> text,
                    totalPages |-> TotalPagesOf(PagesOf(text)),
                    scenes |-> InitialScenes(PagesOf(text))])

\* a faulty FinalProjectState: the cover is left as the ingestion made it
FinalProjectStateCoverPending(project, text, newPrompt, videoUrl) ==
    LET initial == InitialProjectState(project, text)
        title == StrField(newPrompt, "extracted_title")
        author == StrField(newPrompt, "extracted_author")
    IN  Merge(initial,
              [name |-> IF title # "" THEN title ELSE project.name,
               author |-> IF author # "" THEN author ELSE project.author])

\* build 2's finalProjectState
FinalProjectState(project, text, newPrompt, videoUrl) ==
    LET initial == InitialProjectState(project, text)
        title == StrField(newPrompt, "extracted_title")
        author == StrField(newPrompt, "extracted_author")
    IN  Merge(initial,
              [scenes |-> Merge(initial.scenes,
                                [cover |-> [status |-> "completed",
                                            prompt |-> newPrompt,
                                            videoUrl |-> videoUrl]]),
               name |-> IF title # "" THEN title ELSE project.name,
               author |-> IF author # "" THEN author ELSE project.author])

(***************************************************************************)
(* The asynchronous handlers.  A task is a handler suspended at its        *)
(* awaits; it keeps what its closure captured when it was started: the     *)
(* project prop (project), the list behind updateProject (prev), the       *)
(* component state it read, and whether the components whose setters it    *)
(* holds are still mounted (uiLive, wsLive).  Between its first await and  *)
(* its last the handler reads and writes nothing but its own locals and    *)
(* loadingMessage, so the awaits of one handler resolve in one step.       *)
(***************************************************************************)
\* setError(message) of a handler started in a workspace that may be gone
ErrorSetBy(task, message) == IF task.wsLive THEN message ELSE error

\* setCurrentSceneId('cover') of such a handler
SceneSetBy(task) == IF task.wsLive THEN "cover" ELSE currentSceneId

\* a faulty FinallyUI: the handler has no finally, the flags stay set
FinallyUIKeeping(task) == ui

\* setIsLoading(false) / setIsFileParsing(false) in the handler's finally
FinallyUI(task) ==
    IF ~task.uiLive THEN ui
    ELSE IF task.kind = "generate" THEN [ui EXCEPT !.isLoading = FALSE]
    ELSE [ui EXCEPT !.isFileParsing = FALSE]

\* if ((sceneId !== 'end' && !imageBase64) && !isRegenerating); build 1's
\* handleGenerate has no such test
MissingIllustration(sceneId, image, isRegenerating) ==
    build = 2 /\ (sceneId # "end" /\ image = "") /\ ~isRegenerating

\* SceneGeneratorUI.handleGenerate, up to its first await
HandleGenerate ==
    /\ Slot # "none"
    /\ ~ui.isLoading
    /\ UNCHANGED created
    /\ IF MissingIllustration(currentSceneId, ui.image, Slot = "nested")
       THEN /\ Commit(projects, currentProjectId, projectToDelete,
                      currentSceneId, MsgMissingIllustration, ui, tasks)
            /\ UNCHANGED budget
            /\ last' = Event("generateRefused")
       ELSE /\ HasRoom
            /\ Commit(projects, currentProjectId, projectToDelete,
                      currentSceneId, "", [ui EXCEPT !.isLoading = TRUE],
                      Append(tasks,
                          [kind |-> "generate",
                           pid |-> currentProjectId,
                           sceneId |-> currentSceneId,
                           project |-> CurrentProject,
                           prev |-> IF build = 1 THEN EmptyObj ELSE projects,
                           image |-> ui.image,
                           feedback |-> ui.feedback,
                           isRegenerating |-> Slot = "nested",
                           uiLive |-> TRUE, wsLive |-> TRUE]))
            /\ budget' = budget - 1
            /\ last' = Event("generateStarted")

\* a faulty catch: the scene is marked completed before the error is shown
HandlerFailsMarking(t, message) ==
    /\ Commit(UpdateProject(projects, tasks[t].pid,
                  [scenes |-> Merge(projects[tasks[t].pid].scenes,
                                    tasks[t].sceneId :>
                                        [status |-> "completed"])]),
              currentProjectId, projectToDelete, currentSceneId,
              ErrorSetBy(tasks[t], message), FinallyUI(tasks[t]), Without(t))
    /\ UNCHANGED <<created, budget>>
    /\ last' = Event(tasks[t].kind \o "Failed")

\* a faulty catch: the request is sent again, the handler stays suspended
HandlerFailsRetrying(t, message) ==
    /\ Commit(projects, currentProjectId, projectToDelete, currentSceneId,
              ErrorSetBy(tasks[t], message), ui, tasks)
    /\ UNCHANGED <<created, budget>>
    /\ last' = Event(tasks[t].kind \o "Failed")

\* the handler's catch and finally: nothing is given to updateProject
HandlerFails(t, message) ==
    /\ Commit(projects, currentProjectId, projectToDelete, currentSceneId,
              ErrorSetBy(tasks[t], message), FinallyUI(tasks[t]), Without(t))
    /\ UNCHANGED <<created, budget>>
    /\ last' = Event(tasks[t].kind \o "Failed")

\* the handler's updateProject(project.id, updates) and finally
HandlerCommits(t, updates, csid) ==
    /\ Commit(UpdateProject(UpdaterBase(tasks[t]), tasks[t].pid, updates),
              currentProjectId, projectToDelete, csid, error,
              FinallyUI(tasks[t]), Without(t))
    /\ UNCHANGED <<created, budget>>
    /\ last' = Event(tasks[t].kind \o "Committed")

\* build 2's handleGenerate from its first await on: generateScene's fetch
\* resolves to resp, then generateVideoFromPrompt's timer fires
GenerateResumes(t, resp) ==
    /\ build = 2
    /\ t \in Running
    /\ tasks[t].kind = "generate"
    /\ \E task \in {tasks[t]} : \E r \in {GenerateSceneResult(resp)} :
           IF r.ok
           THEN HandlerCommits(t, GenerateUpdates(task.project, task.sceneId,
                                                  r.prompt, VideoUrl),
                               currentSceneId)
           ELSE HandlerFails(t, OperationFailed(r.message))

\* build 1's handleGenerate from its await on: the simulation's timer fires
SimulationDone(t) ==
    /\ build = 1
    /\ t \in Running
    /\ tasks[t].kind = "generate"
    /\ HandlerCommits(t, GenerateUpdates(tasks[t].project, tasks[t].sceneId,
                                         MockPrompt(tasks[t].sceneId),
                                         VideoUrl),
                      currentSceneId)

\* a faulty Accepted: the extension is not tested
AcceptedAny(file) == TRUE

\* the extension test of handleFileChange
Accepted(file) == IF build = 1 THEN file.ext = "txt" ELSE file.ext = "pdf"

\* the message of the extension test for a file that is not accepted
RejectionMessage(file) ==
    IF build = 2 THEN MsgUnsupported2
    ELSE IF file.ext = "pdf" THEN MsgPdfSetup ELSE MsgUnsupported1

\* LayoutUploader.handleFileChange, up to its first await
HandleFileChange(file) ==
    /\ Component = "LayoutUploader"
    /\ ~ui.isFileParsing
    /\ file \in Files
    /\ UNCHANGED created
    /\ IF Accepted(file)
       THEN /\ HasRoom
            /\ Commit(projects, currentProjectId, projectToDelete,
                      currentSceneId, "", [ui EXCEPT !.isFileParsing = TRUE],
                      Append(tasks,
                          [kind |-> "ingest",
                           pid |-> currentProjectId,
                           sceneId |-> "cover",
                           project |-> CurrentProject,
                           prev |-> IF build = 1 THEN EmptyObj ELSE projects,
                           file |-> file,
                           feedback |-> "",
                           uiLive |-> TRUE, wsLive |-> TRUE]))
            /\ budget' = budget - 1
            /\ last' = Event("ingestStarted")
       ELSE /\ Commit(projects, currentProjectId, projectToDelete,
                      currentSceneId, RejectionMessage(file), ui, tasks)
            /\ UNCHANGED budget
            /\ last' = Event("fileRejected")

\* build 1's handleFileChange from file.text() on
TextLoaded(t) ==
    /\ build = 1
    /\ t \in Running
    /\ tasks[t].kind = "ingest"
    /\ LET text == ExtractedText(tasks[t].file)
       IN  IF IsBlank(text) THEN HandlerFails(t, MsgEmptyDocument)
           ELSE HandlerCommits(t, TextProjectUpdates(text),
                               SceneSetBy(tasks[t]))

\* build 2's handleFileChange from its first await on: the PDF is read, the
\* chained generateScene's fetch resolves to resp, the video timer fires
LayoutResumes(t, resp) ==
    /\ build = 2
    /\ t \in Running
    /\ tasks[t].kind = "ingest"
    /\ LET task == tasks[t]
           text == ExtractedText(task.file)
           r == GenerateSceneResult(resp)
       IN  IF IsBlank(text) THEN HandlerFails(t, MsgEmptyDocument)
           ELSE IF r.ok
           THEN HandlerCommits(t, FinalProjectState(task.project, text,
                                                    r.prompt, VideoUrl),
                               SceneSetBy(task))
           ELSE HandlerFails(t, r.message)

(***************************************************************************)
(* The application.                                                        *)
(***************************************************************************)
Next ==
    \/ CreateNewProject
    \/ \E p \in ProjIds : SelectProject(p)
    \/ GoToDashboard
    \/ \E p \in ProjIds : DeleteProject(p)
    \/ CancelDelete
    \/ ConfirmDeleteProject
    \/ \E index \in 0..(Len(DigitStr) + 1) : NavClick(index)
    \/ GoToNextScene
    \/ ToggleRegenerate
    \/ HandleImageChange
    \/ SetFeedback
    \/ HandleGenerate
    \/ \E t \in Running :
          \E resp \in Responses(tasks[t].sceneId, tasks[t].feedback) :
              GenerateResumes(t, resp)
    \/ \E t \in Running : SimulationDone(t)
    \/ \E file \in Offered : HandleFileChange(file)
    \/ \E t \in Running : TextLoaded(t)
    \/ \E t \in Running :
          \E resp \in Responses(tasks[t].sceneId, tasks[t].feedback) :
              LayoutResumes(t, resp)

Spec == Init /\ [][Next]_vars

(***************************************************************************)
(* The ingestion specification: one project, one upload of any file of     *)
(* AllFiles, followed to the end of its handler.                           *)
(***************************************************************************)
InitIngest ==
    /\ build \in {1, 2}
    /\ projects = EmptyObj
    /\ storage = EmptyObj
    /\ created = 0
    /\ currentProjectId = NoProject
    /\ projectToDelete = NoProject
    /\ currentSceneId = "cover"
    /\ error = ""
    /\ ui = DefaultUI
    /\ tasks = <<>>
    /\ fileSet = "all"
    /\ budget = 1
    /\ last = Event("init")
    /\ probe = NoProbe

NextIngest ==
    \/ CreateNewProject
    \/ \E file \in Offered : HandleFileChange(file)
    \/ \E t \in Running : TextLoaded(t)
    \/ \E t \in Running :
          \E resp \in Responses(tasks[t].sceneId, tasks[t].feedback) :
              LayoutResumes(t, resp)

IngestSpec == InitIngest /\ [][NextIngest]_vars

(***************************************************************************)
(* The regeneration specification: build 2 with a service that answers     *)
(* every request with a prompt, followed through MaxRegenStarts handlers,  *)
(* enough to complete a one-page project and regenerate one of its scenes  *)
(* while an older handler is still suspended.  Its behaviours are          *)
(* behaviours of the application: the user deletes nothing and the         *)
(* service does not fail.                                                  *)
(***************************************************************************)
\* the answers of Responses that carry a prompt without title and author
PromptResponses(sceneId, feedback) ==
    {resp \in Responses(sceneId, feedback) :
        /\ GenerateSceneResult(resp).ok
        /\ "extracted_title" \notin DOMAIN GenerateSceneResult(resp).prompt
        /\ "extracted_author" \notin DOMAIN GenerateSceneResult(resp).prompt}

InitRegen ==
    /\ build = 2
    /\ projects = EmptyObj
    /\ storage = EmptyObj
    /\ created = 0
    /\ currentProjectId = NoProject
    /\ projectToDelete = NoProject
    /\ currentSceneId = "cover"
    /\ error = ""
    /\ ui = DefaultUI
    /\ tasks = <<>>
    /\ fileSet = "samples"
    /\ budget = MaxRegenStarts
    /\ last = Event("init")
    /\ probe = NoProbe

NextRegen ==
    \/ CreateNewProject
    \/ \E p \in ProjIds : SelectProject(p)
    \/ GoToDashboard
    \/ \E index \in 0..(Len(DigitStr) + 1) : NavClick(index)
    \/ ToggleRegenerate
    \/ HandleImageChange
    \/ HandleGenerate
    \/ \E t \in Running :
          \E resp \in PromptResponses(tasks[t].sceneId, tasks[t].feedback) :
              GenerateResumes(t, resp)
    \/ \E file \in Offered : HandleFileChange(file)
    \/ \E t \in Running :
          \E resp \in PromptResponses(tasks[t].sceneId, tasks[t].feedback) :
              LayoutResumes(t, resp)

RegenSpec == InitRegen /\ [][NextRegen]_vars

(***************************************************************************)
(* The application with a service that answers: every pending fetch of a   *)
(* generation is resolved in the end, and so is every timer of the         *)
(* simulated generation and of the simulated video synthesis.              *)
(***************************************************************************)
\* a generation in flight resumes
GenerationResolves ==
    \E t \in Running :
        \/ \E resp \in Responses(tasks[t].sceneId, tasks[t].feedback) :
               GenerateResumes(t, resp)
        \/ SimulationDone(t)

InitLive ==
    /\ build \in {1, 2}
    /\ projects = EmptyObj
    /\ storage = EmptyObj
    /\ created = 0
    /\ currentProjectId = NoProject
    /\ projectToDelete = NoProject
    /\ currentSceneId = "cover"
    /\ error = ""
    /\ ui = DefaultUI
    /\ tasks = <<>>
    /\ fileSet = "samples"
    /\ budget = MaxLiveStarts
    /\ last = Event("init")
    /\ probe = NoProbe

LiveSpec == InitLive /\ [][Next]_vars /\ WF_vars(GenerationResolves)

(***************************************************************************)
(* The second-upload specification: the application with a one-page and a  *)
(* two-page document at hand, followed through MaxReuploadStarts handlers  *)
(* (MaxSimulatedStarts in build 1).                                        *)
(***************************************************************************)
InitReupload ==
    /\ build \in {1, 2}
    /\ projects = EmptyObj
    /\ storage = EmptyObj
    /\ created = 0
    /\ currentProjectId = NoProject
    /\ projectToDelete = NoProject
    /\ currentSceneId = "cover"
    /\ error = ""
    /\ ui = DefaultUI
    /\ tasks = <<>>
    /\ fileSet = "documents"
    /\ budget = IF build = 1 THEN MaxSimulatedStarts ELSE MaxReuploadStarts
    /\ last = Event("init")
    /\ probe = NoProbe

ReuploadSpec == InitReupload /\ [][Next]_vars

(***************************************************************************)
(* What the properties speak of, written from the specification's words.   *)
(***************************************************************************)
\* a field of a scene is set: the scene has it (the model has no null)
IsSet(scene, key) == key \in DOMAIN scene

\* a scene is completed / pending by its status field
StatusOf(project, id) ==
    IF id \in DOMAIN project.scenes THEN project.scenes[id].status
    ELSE "absent"

\* the position (from 0) of a scene id in the navigation order, -1 if none
IndexOfScene(project, id) ==
    LET items == NavItems(project)
        found == {i \in 1..Len(items) : items[i] = id}
    IN  IF found = {} THEN -1 ELSE (CHOOSE i \in found : TRUE) - 1

\* reachable: no scene at a smaller index has a status other than completed
ReachableIndex(project, index) ==
    \A j \in 0..(index - 1) :
        StatusOf(project, NavItems(project)[j + 1]) = "completed"

\* the tasks without the flags the renders change
Forget(T) ==
    [i \in 1..Len(T) |-> [T[i] EXCEPT !.uiLive = TRUE, !.wsLive = TRUE]]

(***************************************************************************)
(* C1: in every reachable state, every scene of every project has status   *)
(* "completed" if and only if both its prompt and its videoUrl are set,    *)
(* in the list in memory and in the list in localStorage alike.            *)
(***************************************************************************)
SceneInvariant ==
    \A P \in {projects, storage} :
        \A p \in DOMAIN P :
            \A id \in DOMAIN P[p].scenes :
                (P[p].scenes[id].status = "completed")
                    <=> (IsSet(P[p].scenes[id], "prompt")
                         /\ IsSet(P[p].scenes[id], "videoUrl"))

\* a generation has just committed into a project that still has a pending
\* scene next to its completed ones
SceneInvariantWitness ==
    /\ last = "generateCommitted"
    /\ \E p \in DOMAIN projects :
          /\ \E id \in DOMAIN projects[p].scenes :
                /\ projects[p].scenes[id].status = "completed"
                /\ IsSet(projects[p].scenes[id], "prompt")
                /\ projects[p].scenes[id].videoUrl = VideoUrl
          /\ \E id \in DOMAIN projects[p].scenes :
                /\ projects[p].scenes[id].status = "pending"
                /\ ~IsSet(projects[p].scenes[id], "prompt")

(***************************************************************************)
(* C2: the navigation gate.  In a mounted workspace the buttons the side   *)
(* bar leaves enabled are exactly those of the reachable scenes (those     *)
(* before which no scene is other than completed), and after a click on    *)
(* the side bar the current scene is a reachable one: the user never lands *)
(* on a scene beyond the first pending one.                                *)
(***************************************************************************)
NavigationGate ==
    Mounted =>
        /\ \A index \in 0..(Len(NavItems(CurrentProject)) - 1) :
              (~IsDisabled(CurrentProject, index))
                  <=> ReachableIndex(CurrentProject, index)
        /\ (last = "navClick") =>
              /\ IndexOfScene(CurrentProject, currentSceneId) >= 0
              /\ ReachableIndex(CurrentProject,
                                IndexOfScene(CurrentProject, currentSceneId))

\* the user has just clicked a completed scene's button while a later scene
\* is pending and the scene after that one is out of reach
NavigationGateWitness ==
    /\ Mounted
    /\ last = "navClick"
    /\ StatusOf(CurrentProject, currentSceneId) = "completed"
    /\ \E index \in 0..(Len(NavItems(CurrentProject)) - 1) :
          ~ReachableIndex(CurrentProject, index)
    /\ \E index \in 1..(Len(NavItems(CurrentProject)) - 1) :
          ReachableIndex(CurrentProject, index)

(***************************************************************************)
(* C3: a generation (or the cover generation chained to an ingestion) that *)
(* fails applies no patch: the step in which the handler fails leaves the  *)
(* project list and localStorage exactly as they were, and the error is    *)
(* shown in the workspace the handler was started in, if it is still there.*)
(* The step that starts an attempt changes no project either.              *)
(***************************************************************************)
FailureAppliesNoPatch ==
    [][/\ (last' \in {"generateFailed", "ingestFailed"}) =>
             /\ projects' = projects
             /\ storage' = storage
             /\ \E t \in Running :
                   /\ Forget(tasks') = Forget(Without(t))
                   /\ tasks[t].wsLive => (error' # "" /\ Mounted')
       /\ (last' = "generateStarted") =>
             (projects' = projects /\ storage' = storage)]_vars

\* a generation of a pending page scene has just failed on the service's
\* HTTP error: the scene is still pending and the message is shown
FailureAppliesNoPatchWitness ==
    /\ last = "generateFailed"
    /\ Mounted
    /\ error = OperationFailed("API Error: 500 Internal Server Error - overloaded")
    /\ currentSceneId = "1"
    /\ StatusOf(CurrentProject, "1") = "pending"
    /\ ~IsSet(CurrentProject.scenes["1"], "prompt")
    /\ tasks = <<>>

(***************************************************************************)
(* C4: at most one generation attempt for a given scene is in flight at    *)
(* any time: no two handleGenerate calls for the same scene of the same    *)
(* project are suspended at once, whatever the user did in between         *)
(* (leaving the scene and coming back included).                           *)
(***************************************************************************)
OneAttemptPerScene ==
    \A t \in Running : \A u \in Running :
        (/\ t # u
         /\ tasks[t].kind = "generate"
         /\ tasks[u].kind = "generate"
         /\ tasks[t].pid = tasks[u].pid)
            => tasks[t].sceneId # tasks[u].sceneId

(***************************************************************************)
(* C5: generation is sequential across the scenes of a project: no two     *)
(* handleGenerate calls for different scenes of the same project are       *)
(* suspended at once.                                                      *)
(***************************************************************************)
OneSceneInFlight ==
    \A t \in Running : \A u \in Running :
        (/\ tasks[t].kind = "generate"
         /\ tasks[u].kind = "generate"
         /\ tasks[t].pid = tasks[u].pid)
            => tasks[t].sceneId = tasks[u].sceneId

(***************************************************************************)
(* C6: a first generation (the scene is pending, this is no regeneration)  *)
(* of a scene other than "end", asked for with no illustration chosen, is  *)
(* refused with the MissingIllustration message: the click starts no       *)
(* attempt and changes no project, so the scene stays pending.             *)
(***************************************************************************)
FirstGenerationNeedsIllustration ==
    [][(/\ last' \in {"generateStarted", "generateRefused"}
        /\ Slot = "top"
        /\ currentSceneId # "end"
        /\ ui.image = "")
          => /\ last' = "generateRefused"
             /\ error' = MsgMissingIllustration
             /\ Forget(tasks') = Forget(tasks)
             /\ projects' = projects
             /\ StatusOf(CurrentProject, currentSceneId) = "pending"]_vars

(***************************************************************************)
(* C7: a regeneration needs no illustration; while it is in flight its     *)
(* scene's status is "completed" in every state (it never passes through   *)
(* "pending"), and when it succeeds the scene is completed with the new    *)
(* prompt and the videoUrl, its text being the one it had.                 *)
(***************************************************************************)
RegenerationKeepsCompleted ==
    [][/\ \A t \in 1..Len(tasks') :
             (/\ tasks'[t].kind = "generate"
              /\ tasks'[t].isRegenerating
              /\ tasks'[t].pid \in DOMAIN projects')
                => StatusOf(projects'[tasks'[t].pid], tasks'[t].sceneId)
                       = "completed"
       /\ (last' = "generateStarted" /\ Slot = "nested") =>
             (error' = "" /\ Len(tasks') = Len(tasks) + 1)
       /\ \A t \in Running :
             (/\ last' = "generateCommitted"
              /\ tasks[t].kind = "generate"
              /\ tasks[t].isRegenerating
              /\ Forget(tasks') = Forget(Without(t))
              /\ tasks[t].pid \in DOMAIN projects')
                => LET before == projects[tasks[t].pid].scenes[tasks[t].sceneId]
                       after == projects'[tasks[t].pid].scenes[tasks[t].sceneId]
                   IN  /\ after.status = "completed"
                       /\ after.prompt
                              = PromptFor(tasks[t].sceneId, tasks[t].feedback,
                                          FALSE, FALSE)
                       /\ after.videoUrl = VideoUrl
                       /\ IsSet(before, "text") =>
                              (IsSet(after, "text")
                               /\ after.text = before.text)]_vars

(***************************************************************************)
(* C8: the scene pointer.  After a patch is committed in a mounted         *)
(* workspace the current scene is the first pending scene, unless the      *)
(* user is on a completed scene; and a click on the button of a completed  *)
(* scene leaves the user on that scene, pending scenes or not.             *)
(***************************************************************************)
PointerFollowsFirstPending ==
    [][/\ (last' \in {"generateCommitted", "ingestCommitted"} /\ Mounted') =>
             \/ StatusOf(CurrentProject', currentSceneId') = "completed"
             \/ /\ IndexOfScene(CurrentProject', currentSceneId') >= 0
                /\ ReachableIndex(CurrentProject',
                       IndexOfScene(CurrentProject', currentSceneId'))
                /\ StatusOf(CurrentProject', currentSceneId') # "completed"
       /\ (Mounted /\ last' = "navClick") =>
             \A index \in 0..(Len(NavItems(CurrentProject)) - 1) :
                 (/\ NavClick(index)
                  /\ StatusOf(CurrentProject,
                              NavItems(CurrentProject)[index + 1])
                         = "completed")
                    => currentSceneId' = NavItems(CurrentProject)[index + 1]]_vars

(***************************************************************************)
(* C9: whenever an ingestion has been committed (the project's storyText   *)
(* is set, and it is non-blank), totalPages is at least 1 and the scene    *)
(* map has exactly totalPages + 2 entries, whose ids are cover, "1" .. "N" *)
(* and end with N = totalPages.                                            *)
(***************************************************************************)
IngestionYieldsScenes ==
    \A p \in DOMAIN projects :
        (projects[p].storyText # <<>>) =>
            /\ \E k \in 1..Len(projects[p].storyText) :
                  projects[p].storyText[k] \notin {SP, NL}
            /\ projects[p].totalPages >= 1
            /\ projects[p].totalPages <= Len(DigitStr)
            /\ DOMAIN projects[p].scenes
                   = {"cover", "end"}
                     \cup {Str(i) : i \in 1..projects[p].totalPages}
            /\ Cardinality(DOMAIN projects[p].scenes)
                   = projects[p].totalPages + 2

\* a two-page PDF has just been ingested: four scenes
IngestionYieldsScenesWitness ==
    /\ last = "ingestCommitted"
    /\ build = 2
    /\ \E p \in DOMAIN projects :
          /\ projects[p].storyText = <<"a", NL, NL, "b", NL, NL>>
          /\ projects[p].totalPages = 2
          /\ DOMAIN projects[p].scenes = {"cover", "1", "2", "end"}

(***************************************************************************)
(* C10: immediately after the ingestion of a text document every scene,    *)
(* cover and end included, is pending and carries neither prompt nor       *)
(* videoUrl, and the numbered scene i carries as text the i-th segment of  *)
(* the document that is not blank, the segments being what the blank-line  *)
(* separators (a line break, white space, a line break) leave between      *)
(* them, in the order of the document.                                     *)
(***************************************************************************)
\* the positions of s that lie in a separator: between two line breaks with
\* nothing but white space from the one to the other
SeparatorPositions(s) ==
    {k \in 1..Len(s) :
        \E i \in 1..k : \E j \in k..Len(s) :
            /\ i < j
            /\ s[i] = NL
            /\ s[j] = NL
            /\ \A m \in i..j : s[m] \in {SP, NL}}

\* where a segment starts: a position outside the separators, first of s or
\* next to a separator
SegmentStarts(s) ==
    {a \in (1..Len(s)) \ SeparatorPositions(s) :
        a = 1 \/ (a - 1) \in SeparatorPositions(s)}

\* the segment that starts at a: up to the next separator or the end of s
SegmentFrom(s, a) ==
    LET b == CHOOSE b \in a..Len(s) :
                 /\ \A k \in a..b : k \notin SeparatorPositions(s)
                 /\ b = Len(s) \/ (b + 1) \in SeparatorPositions(s)
    IN  SubSeq(s, a, b)

\* the starts of the segments that are not blank
NonBlankStarts(s) ==
    {a \in SegmentStarts(s) :
        \E k \in 1..Len(SegmentFrom(s, a)) :
            SegmentFrom(s, a)[k] \notin {SP, NL}}

\* the i-th segment of s that is not blank
NthSegment(s, i) ==
    SegmentFrom(s, CHOOSE a \in NonBlankStarts(s) :
                       Cardinality({x \in NonBlankStarts(s) : x < a}) = i - 1)

TextIngestionLeavesPending ==
    \A p \in DOMAIN projects :
        (build = 1 /\ projects[p].storyText # <<>>) =>
            LET text == projects[p].storyText
                scenes == projects[p].scenes
                n == Cardinality(NonBlankStarts(text))
            IN  /\ n >= 1
                /\ DOMAIN scenes = {"cover", "end"} \cup {Str(i) : i \in 1..n}
                /\ \A id \in DOMAIN scenes :
                      /\ scenes[id].status = "pending"
                      /\ ~IsSet(scenes[id], "prompt")
                      /\ ~IsSet(scenes[id], "videoUrl")
                /\ \A i \in 1..n : scenes[Str(i)].text = NthSegment(text, i)

\* the text "a", a blank line of one space, "b" has just been ingested
TextIngestionLeavesPendingWitness ==
    /\ last = "ingestCommitted"
    /\ build = 1
    /\ \E p \in DOMAIN projects :
          /\ projects[p].storyText = <<"a", NL, SP, NL, "b">>
          /\ DOMAIN projects[p].scenes = {"cover", "1", "2", "end"}
          /\ projects[p].scenes["1"] = [status |-> "pending", text |-> <<"a">>]
          /\ projects[p].scenes["2"] = [status |-> "pending", text |-> <<"b">>]
          /\ projects[p].scenes["cover"] = [status |-> "pending"]
          /\ projects[p].scenes["end"] = [status |-> "pending"]

\* a text has a character that trimming leaves
NonBlankText(text) == \E k \in 1..Len(text) : text[k] \notin {SP, NL}

(***************************************************************************)
(* C11: an ingestion of a file with a supported extension and a text that  *)
(* is not blank always leaves the project ingested, in memory and in       *)
(* localStorage: storyText is the text, totalPages is at least 1 and the   *)
(* scenes are there.  If the cover generation chained to it fails, only    *)
(* the cover is lost: the project is ingested all the same, with every     *)
(* scene, the cover included, pending.                                     *)
(***************************************************************************)
IngestionSurvivesCoverFailure ==
    [][\A t \in Running :
          (/\ tasks[t].kind = "ingest"
           /\ last' \in {"ingestFailed", "ingestCommitted"}
           /\ Forget(tasks') = Forget(Without(t))
           /\ tasks[t].file.ext \in {"txt", "pdf"}
           /\ NonBlankText(ExtractedText(tasks[t].file))
           /\ tasks[t].pid \in DOMAIN projects')
             => LET after == projects'[tasks[t].pid]
                IN  /\ after.storyText = ExtractedText(tasks[t].file)
                    /\ after.totalPages >= 1
                    /\ {"cover", "1", "end"} \subseteq DOMAIN after.scenes
                    /\ storage' = projects'
                    /\ (last' = "ingestFailed") =>
                          \A id \in DOMAIN after.scenes :
                              after.scenes[id].status = "pending"]_vars

(***************************************************************************)
(* C12: the ingestion of a PDF (a document with a cover image) chains into *)
(* the cover generation before its handler returns.  In the step in which  *)
(* the handler completes successfully the project, not ingested until      *)
(* then, gets in one patch its storyText, its totalPages and its scenes,   *)
(* the cover completed with prompt and videoUrl, every numbered scene and  *)
(* the end scene pending; localStorage holds the same.                     *)
(***************************************************************************)
CoverChainedInOnePatch ==
    [][\A t \in Running :
          (/\ tasks[t].kind = "ingest"
           /\ last' = "ingestCommitted"
           /\ Forget(tasks') = Forget(Without(t))
           /\ tasks[t].file.ext = "pdf"
           /\ tasks[t].pid \in DOMAIN projects
           /\ tasks[t].pid \in DOMAIN projects')
             => LET before == projects[tasks[t].pid]
                    after == projects'[tasks[t].pid]
                IN  /\ before.storyText = <<>>
                    /\ before.totalPages = 0
                    /\ before.scenes = EmptyObj
                    /\ after.storyText = ExtractedText(tasks[t].file)
                    /\ after.totalPages >= 1
                    /\ DOMAIN after.scenes
                           = {"cover", "end"}
                             \cup {Str(i) : i \in 1..after.totalPages}
                    /\ after.scenes["cover"].status = "completed"
                    /\ IsSet(after.scenes["cover"], "prompt")
                    /\ IsSet(after.scenes["cover"], "videoUrl")
                    /\ after.scenes["cover"].videoUrl = VideoUrl
                    /\ \A id \in (DOMAIN after.scenes) \ {"cover"} :
                          /\ after.scenes[id].status = "pending"
                          /\ ~IsSet(after.scenes[id], "prompt")
                          /\ ~IsSet(after.scenes[id], "videoUrl")
                    /\ storage' = projects']_vars

\* a two-page PDF has just been ingested and its cover generated
CoverChainedInOnePatchWitness ==
    /\ last = "ingestCommitted"
    /\ build = 2
    /\ tasks = <<>>
    /\ \E p \in DOMAIN projects :
          /\ projects[p].totalPages = 2
          /\ projects[p].scenes["cover"].status = "completed"
          /\ projects[p].scenes["cover"].prompt
                 = PromptFor("cover", "", TRUE, TRUE)
          /\ projects[p].scenes["2"] = [status |-> "pending", text |-> <<"b">>]
          /\ projects[p].scenes["end"] = [status |-> "pending"]

(***************************************************************************)
(* C13: the ingestion of a document whose extracted text is blank after    *)
(* trimming fails with the EmptyDocument message and commits nothing: the  *)
(* project list and localStorage are left as they were, the project's      *)
(* storyText is still empty, its totalPages 0 and its scene map empty.     *)
(***************************************************************************)
BlankDocumentCommitsNothing ==
    [][\A t \in Running :
          (/\ tasks[t].kind = "ingest"
           /\ last' \in {"ingestFailed", "ingestCommitted"}
           /\ Forget(tasks') = Forget(Without(t))
           /\ ~NonBlankText(ExtractedText(tasks[t].file)))
             => /\ last' = "ingestFailed"
                /\ tasks[t].wsLive => error' = MsgEmptyDocument
                /\ projects' = projects
                /\ storage' = storage
                /\ tasks[t].pid \in DOMAIN projects' =>
                      /\ projects'[tasks[t].pid].storyText = <<>>
                      /\ projects'[tasks[t].pid].totalPages = 0
                      /\ projects'[tasks[t].pid].scenes = EmptyObj]_vars

\* a blank document has just been refused: the uploader is shown again
BlankDocumentCommitsNothingWitness ==
    /\ last = "ingestFailed"
    /\ error = MsgEmptyDocument
    /\ Mounted
    /\ Component = "LayoutUploader"
    /\ ~ui.isFileParsing
    /\ tasks = <<>>
    /\ CurrentProject.storyText = <<>>
    /\ CurrentProject.totalPages = 0
    /\ CurrentProject.scenes = EmptyObj

(***************************************************************************)
(* C14: a file whose extension is not supported (anything but .txt in      *)
(* build 1, anything but .pdf in build 2) is rejected with the             *)
(* unsupported-format message before any text is extracted: no handler is  *)
(* ever suspended on such a file, and the rejection leaves the project     *)
(* list and localStorage as they were, the project still not ingested.     *)
(***************************************************************************)
UnsupportedFormatRejected ==
    [][/\ \A t \in 1..Len(tasks') :
             (tasks'[t].kind = "ingest") =>
                 tasks'[t].file.ext = (IF build = 1 THEN "txt" ELSE "pdf")
       /\ (last' = "fileRejected") =>
             /\ error' \in {MsgUnsupported1, MsgUnsupported2, MsgPdfSetup}
             /\ projects' = projects
             /\ storage' = storage
             /\ Forget(tasks') = Forget(tasks)
             /\ Mounted'
             /\ CurrentProject'.storyText = <<>>
             /\ CurrentProject'.totalPages = 0
             /\ ~ui'.isFileParsing]_vars

\* build 2 has just rejected a file that is no PDF
UnsupportedFormatRejectedWitness ==
    /\ last = "fileRejected"
    /\ build = 2
    /\ error = MsgUnsupported2
    /\ tasks = <<>>
    /\ Component = "LayoutUploader"
    /\ CurrentProject.scenes = EmptyObj

(***************************************************************************)
(* The navigation-list specification: each of the three places that        *)
(* derive navItems, applied on its own to the projects it can be given.    *)
(* A project is either not ingested (no storyText, totalPages 0) or        *)
(* ingested (storyText and 1 to MaxNavPages pages): the ingestion sets     *)
(* both fields in one patch.                                               *)
(***************************************************************************)
\* the places: PageNavigation, ProjectWorkspace's effect, getNextScene
NavPlaces == {"PageNavigation", "effect", "getNextScene"}

\* the navItems a place derives: PageNavigation tests totalPages > 0, the
\* effect and getNextScene build the array without that test
DerivedNavItems(place, project) ==
    IF place = "PageNavigation" THEN NavItems(project)
    ELSE NavItemsOf(project.totalPages)

\* the project before its ingestion, and ingested ones of every page count
NavProjects ==
    {NewProject(1)}
    \cup {[NewProject(1) EXCEPT !.totalPages = n, !.storyText = <<"a">>] :
             n \in 1..MaxNavPages}

\* One place derives its navItems.  PageNavigation is rendered for every
\* project; the effect derives under if (project.storyText); getNextScene
\* belongs to CompletedSceneViewer, which SceneGenerator returns for a
\* project with a storyText only, and looks sceneId up in the list.
DeriveNavItems(place, project, sceneId) ==
    /\ probe = NoProbe
    /\ place # "PageNavigation" => project.storyText # <<>>
    /\ place # "getNextScene" => sceneId = "cover"
    /\ probe' = [op |-> place,
                 project |-> project,
                 sceneId |-> sceneId,
                 out |-> DerivedNavItems(place, project),
                 next |-> IF place = "getNextScene"
                          THEN GetNextScene(project, sceneId) ELSE ""]
    /\ UNCHANGED <<build, projects, storage, created, currentProjectId,
                   projectToDelete, currentSceneId, error, ui, tasks,
                   fileSet, budget, last>>

NextNav ==
    \E place \in NavPlaces : \E project \in NavProjects :
        \E sceneId \in {"cover", "1", "2", "3", "end"} :
            DeriveNavItems(place, project, sceneId)

NavSpec == Init /\ [][NextNav]_vars

\* a list is cover, "1" .. "n", end: n + 2 entries, the numbers increasing
IsFullNavList(items, n) ==
    /\ Len(items) = n + 2
    /\ items[1] = "cover"
    /\ items[n + 2] = "end"
    /\ \A i \in 1..n : items[i + 1] = Str(i)

(***************************************************************************)
(* C15: for every totalPages N >= 0, every place that derives NavItems     *)
(* yields the empty sequence when N = 0 and, when N > 0, the sequence of   *)
(* length N + 2 that starts with cover, ends with end and has "1" .. "N"   *)
(* in increasing order in between.                                         *)
(***************************************************************************)
NavItemsEverywhere ==
    (probe.op \in NavPlaces) =>
        IF probe.project.totalPages = 0 THEN probe.out = <<>>
        ELSE IsFullNavList(probe.out, probe.project.totalPages)

\* the effect has derived the five entries of a three-page project
NavItemsEverywhereWitness ==
    /\ probe.op = "effect"
    /\ probe.project.totalPages = 3
    /\ probe.out = <<"cover", "1", "2", "3", "end">>

(***************************************************************************)
(* C16: the title of the cover.  In the step in which a handler that       *)
(* generated the cover (handleGenerate on the cover, or build 2's          *)
(* ingestion) commits, the cover is completed; if the committed prompt     *)
(* carries extracted_title T the project's name is T, and if it carries no *)
(* extracted_title the project's name and author are what they were        *)
(* before the step.                                                        *)
(***************************************************************************)
CoverTitleSetsName ==
    [][\A t \in Running :
          (/\ tasks[t].sceneId = "cover"
           /\ \/ tasks[t].kind = "generate" /\ last' = "generateCommitted"
              \/ tasks[t].kind = "ingest" /\ build = 2
                                          /\ last' = "ingestCommitted"
           /\ Forget(tasks') = Forget(Without(t))
           /\ tasks[t].pid \in DOMAIN projects
           /\ tasks[t].pid \in DOMAIN projects')
             => LET before == projects[tasks[t].pid]
                    after == projects'[tasks[t].pid]
                    cover == after.scenes["cover"]
                IN  /\ cover.status = "completed"
                    /\ IF "extracted_title" \in DOMAIN cover.prompt
                       THEN after.name = cover.prompt.extracted_title
                       ELSE /\ after.name = before.name
                            /\ after.author = before.author]_vars

\* the values an extraction can give to name and author
ExtractedTitles == {"Foo"}
ExtractedAuthors == {"Ann"}

\* a project carries an extracted title or author
HoldsExtracted(project) ==
    project.name \in ExtractedTitles \/ project.author \in ExtractedAuthors

\* the cover of a project is completed with its prompt and its videoUrl
CoverCompleted(project) ==
    /\ "cover" \in DOMAIN project.scenes
    /\ StatusOf(project, "cover") = "completed"
    /\ IsSet(project.scenes["cover"], "prompt")
    /\ IsSet(project.scenes["cover"], "videoUrl")

\* `after` has an extracted title or author that `base` has not
ExtractedOver(base, after) ==
    \/ after.name # base.name /\ after.name \in ExtractedTitles
    \/ after.author # base.author /\ after.author \in ExtractedAuthors

(***************************************************************************)
(* C17: the commit is all-or-nothing.  A handler's patch gives the project *)
(* an extracted title or author that the project it is applied to has not  *)
(* only if the handler generated the cover, and then the patched project   *)
(* has its cover completed with videoUrl and the prompt the title and the  *)
(* author come from; a step that commits no patch gives no project an      *)
(* extracted title or author; and no state after a step has a project with *)
(* an extracted title or author whose cover is not completed with prompt   *)
(* and videoUrl.                                                           *)
(***************************************************************************)
TitleOnlyWithCompletedCover ==
    [][/\ \A p \in DOMAIN projects' :
              HoldsExtracted(projects'[p]) => CoverCompleted(projects'[p])
       /\ (last' \notin {"generateCommitted", "ingestCommitted"})
              => \A p \in (DOMAIN projects) \cap (DOMAIN projects') :
                     ~ExtractedOver(projects[p], projects'[p])
       /\ \A t \in Running :
              (/\ last' \in {"generateCommitted", "ingestCommitted"}
               /\ Forget(tasks') = Forget(Without(t))
               /\ tasks[t].pid \in DOMAIN UpdaterBase(tasks[t])
               /\ tasks[t].pid \in DOMAIN projects')
                 => LET base == UpdaterBase(tasks[t])[tasks[t].pid]
                        after == projects'[tasks[t].pid]
                    IN  ExtractedOver(base, after)
                          => /\ tasks[t].sceneId = "cover"
                             /\ CoverCompleted(after)
                             /\ after.name \in ExtractedTitles
                                  => StrField(after.scenes["cover"].prompt,
                                              "extracted_title") = after.name
                             /\ after.author \in ExtractedAuthors
                                  => StrField(after.scenes["cover"].prompt,
                                              "extracted_author")
                                         = after.author]_vars

\* a regeneration of the cover has just given the project its title
TitleOnlyWithCompletedCoverWitness ==
    /\ last = "generateCommitted"
    /\ \E p \in DOMAIN projects :
          /\ projects[p].name = "Foo"
          /\ CoverCompleted(projects[p])
          /\ projects[p].scenes["cover"].prompt
                 = PromptFor("cover", "", TRUE, FALSE)

(***************************************************************************)
(* C18: one request per trigger, no automatic retry.  A handler in flight  *)
(* is a handler suspended at the one fetch of its generateScene call.  The *)
(* step in which handleGenerate starts adds exactly one handler, for the   *)
(* scene and the project on display; the step in which a handler fails     *)
(* removes that handler and adds none; and any step that adds a handler    *)
(* adds one and is a start by the user (it takes one from budget).         *)
(***************************************************************************)
OneRequestPerTrigger ==
    [][/\ (last' = "generateStarted")
            => /\ Len(tasks') = Len(tasks) + 1
               /\ Forget(SubSeq(tasks', 1, Len(tasks))) = Forget(tasks)
               /\ tasks'[Len(tasks')].kind = "generate"
               /\ tasks'[Len(tasks')].sceneId = currentSceneId
               /\ tasks'[Len(tasks')].pid = currentProjectId
       /\ (last' \in {"generateFailed", "ingestFailed"})
            => \E t \in Running : Forget(tasks') = Forget(Without(t))
       /\ (Len(tasks') > Len(tasks))
            => /\ Len(tasks') = Len(tasks) + 1
               /\ budget' = budget - 1]_vars

\* a generation has failed while another handler is in flight, which is
\* still the only one
OneRequestPerTriggerWitness ==
    /\ last = "generateFailed"
    /\ error = OperationFailed("The model returned an empty or invalid response.")
    /\ Len(tasks) = 1

(***************************************************************************)
(* The service specification: generateScene from fetch's answer on, called *)
(* by either handler of build 2 and followed into the handler's catch, on  *)
(* every answer of ServiceResponses.                                       *)
(***************************************************************************)
\* the callers of generateScene
Callers == {"handleGenerate", "handleFileChange"}

\* the scenes a request can be about
RequestScenes == {"cover", "1", "2", "end"}

\* non-success answers of several statuses and bodies
ErrorResponses ==
    {[ok |-> FALSE, status |-> st[1], statusText |-> st[2], body |-> body,
      candidates |-> <<>>] :
        st \in {<<"400", "Bad Request">>, <<"429", "Too Many Requests">>,
                <<"500", "Internal Server Error">>},
        body \in {"", "overloaded", "quota"}}

\* what fetch can resolve to
ServiceResponses(sceneId, feedback) ==
    Responses(sceneId, feedback) \cup ErrorResponses

\* what the caller's catch gives to setError: err.message in
\* handleFileChange, `Operation failed: ${err.message}.` in handleGenerate
ShownBy(caller, message) ==
    IF caller = "handleGenerate" THEN OperationFailed(message) ELSE message

\* One call of generateScene: fetch resolves to resp.  out is what the call
\* returns or throws, shown what the caller's catch then displays.
CallGenerateScene(caller, sceneId, feedback, resp) ==
    /\ probe = NoProbe
    /\ build = 2
    /\ caller = "handleFileChange" => sceneId = "cover" /\ feedback = ""
    /\ LET out == GenerateSceneResult(resp)
       IN  probe' = [op |-> "generateScene",
                     caller |-> caller,
                     sceneId |-> sceneId,
                     feedback |-> feedback,
                     resp |-> resp,
                     out |-> out,
                     thrown |-> ~out.ok,
                     shown |-> IF out.ok THEN ""
                               ELSE ShownBy(caller, out.message)]
    /\ UNCHANGED <<build, projects, storage, created, currentProjectId,
                   projectToDelete, currentSceneId, error, ui, tasks,
                   fileSet, budget, last>>

NextService ==
    \E caller \in Callers : \E sceneId \in RequestScenes :
        \E feedback \in {"", "bigger smile"} :
            \E resp \in ServiceResponses(sceneId, feedback) :
                CallGenerateScene(caller, sceneId, feedback, resp)

ServiceSpec == Init /\ [][NextService]_vars

\* the failure an answer is, in the specification's words
FailureOf(resp) ==
    IF ~resp.ok THEN "ServiceError"
    ELSE IF Len(resp.candidates) = 0 THEN "EmptyResponse"
    ELSE IF resp.candidates[1] \notin {JSONStringify(v) : v \in Prompts}
    THEN "MalformedResponse"
    ELSE "none"

\* every answer the service specification tries
AllServiceResponses ==
    UNION {ServiceResponses(sceneId, feedback) :
              sceneId \in RequestScenes, feedback \in {"", "bigger smile"}}

(***************************************************************************)
(* C19: the generation client maps each failure of the service to its own  *)
(* error.  For an answer that is a ServiceError, an EmptyResponse or a     *)
(* MalformedResponse the call throws and returns no prompt; the message    *)
(* thrown differs from that of every answer of another kind, and for a     *)
(* ServiceError from that of every ServiceError of another status or body  *)
(* (it carries both); and the caller's catch gives setError a message made *)
(* of the thrown one.  An answer that is no failure throws nothing.        *)
(***************************************************************************)
FailuresMappedToErrors ==
    (probe.op = "generateScene") =>
        LET resp == probe.resp
            out == probe.out
        IN  IF FailureOf(resp) = "none"
            THEN /\ ~probe.thrown
                 /\ out.ok
                 /\ out.prompt \in Prompts
                 /\ probe.shown = ""
            ELSE /\ probe.thrown
                 /\ ~out.ok
                 /\ out.prompt = EmptyObj
                 /\ out.message # ""
                 /\ \A other \in AllServiceResponses :
                        (\/ FailureOf(other) # FailureOf(resp)
                         \/ /\ FailureOf(resp) = "ServiceError"
                            /\ \/ other.status # resp.status
                               \/ other.body # resp.body)
                          => GenerateSceneResult(other).message # out.message
                 /\ probe.shown \in {out.message, OperationFailed(out.message)}

\* handleGenerate's catch shows the status and the body of a 429
FailuresMappedToErrorsWitness ==
    /\ probe.op = "generateScene"
    /\ probe.caller = "handleGenerate"
    /\ probe.resp.status = "429"
    /\ probe.shown
           = "Operation failed: API Error: 429 Too Many Requests - quota."

(***************************************************************************)
(* The request of generateScene.  The instruction string is a template;    *)
(* it is modelled by the values that fill it.                              *)
(***************************************************************************)
SystemInstruction ==
    "You are an expert animation director for children's content. Your task is to analyze a single children's book scene (text and illustration) within the context of an entire story. You will generate a structured JSON object that serves as a technical animation prompt. All descriptions must be child-friendly and safe."

\* project.storyText || "No story context provided yet."
FullStoryContext(project) ==
    IF project.storyText # <<>> THEN project.storyText
    ELSE <<"No story context provided yet.">>

\* project.scenes[sceneId]?.text || ''
SceneText(project, sceneId) ==
    IF sceneId \in DOMAIN project.scenes
       /\ "text" \in DOMAIN project.scenes[sceneId]
    THEN project.scenes[sceneId].text
    ELSE <<>>

\* a faulty TaskInstruction: the directive is appended without the feedback
TaskInstructionUnquoted(sceneId, feedback) ==
    (IF sceneId = "cover" THEN "Analyze the attached book cover image."
     ELSE IF sceneId = "end" THEN "All pages are complete."
     ELSE "Analyze the attached illustration and its corresponding text for Page "
          \o sceneId \o ".")
    \o (IF feedback # ""
        THEN "\n\nREGENERATION FEEDBACK: The previous attempt was not quite right."
        ELSE "")

\* taskInstruction: chosen by the kind of the scene, followed by the
\* regeneration directive if there is feedback
TaskInstruction(sceneId, feedback) ==
    (IF sceneId = "cover"
     THEN "Analyze the attached book cover image. Based on the visuals, generate a dynamic opening title sequence animation. IMPORTANT: Also, extract the book's title and author's name from the cover image text. Populate the 'extracted_title' and 'extracted_author' fields in the JSON. The animation should hint at the story's main themes and characters."
     ELSE IF sceneId = "end"
     THEN "All pages are complete. Generate a concluding animation prompt. This should be a gentle, summary scene, perhaps a final shot of the main character or a pan across the main setting, evoking a feeling of happy resolution. Use the full story context for inspiration."
     ELSE "Analyze the attached illustration and its corresponding text for Page "
          \o sceneId
          \o ". Generate a detailed animation prompt based on these assets, interpreted within the broader context of the full story provided below.")
    \o (IF feedback # ""
        THEN "\n\nREGENERATION FEEDBACK: The previous attempt was not quite right. Please regenerate the JSON, taking this user feedback into account: \""
             \o feedback \o "\""
        ELSE "")

\* a faulty BuildApiPromptText: the scene's status is written into the text
BuildApiPromptTextWithStatus(project, sceneId, feedback) ==
    [systemInstruction |-> SystemInstruction,
     fullStoryContext |-> FullStoryContext(project),
     sceneId |-> sceneId,
     sceneText |-> SceneText(project, sceneId),
     sceneStatus |-> StrField(SceneOf(project, sceneId), "status"),
     taskInstruction |-> TaskInstruction(sceneId, feedback)]

\* buildApiPromptText: the values that fill the returned template
BuildApiPromptText(project, sceneId, feedback) ==
    [systemInstruction |-> SystemInstruction,
     fullStoryContext |-> FullStoryContext(project),
     sceneId |-> sceneId,
     sceneText |-> SceneText(project, sceneId),
     taskInstruction |-> TaskInstruction(sceneId, feedback)]

\* generateScene's payload: the text part, the image part if there is an
\* image, and the generationConfig
Payload(project, sceneId, imageBase64, feedback) ==
    [text |-> BuildApiPromptText(project, sceneId, feedback),
     inlineData |-> IF imageBase64 # ""
                    THEN <<[mimeType |-> "image/jpeg", data |-> imageBase64]>>
                    ELSE <<>>,
     responseMimeType |-> "application/json"]

\* a faulty BuildCall: the call marks the scene it describes as generating
BuildCallMarking(project, sceneId, feedback) ==
    [returned |-> BuildApiPromptText(project, sceneId, feedback),
     project |-> [project EXCEPT !.scenes =
                     Merge(project.scenes,
                           sceneId :> Merge(SceneOf(project, sceneId),
                                            [status |-> "generating"]))]]

\* One call of buildApiPromptText: what it returns, and the project object
\* it was given as the call leaves it (the function assigns to its own
\* locals only)
BuildCall(project, sceneId, feedback) ==
    [returned |-> BuildApiPromptText(project, sceneId, feedback),
     project |-> project]

(***************************************************************************)
(* The repetition specification: handleGenerate run twice in sequence on   *)
(* one scene of an ingested project with the same illustration and         *)
(* feedback, each run followed to its updateProject, against a service     *)
(* that answers as a function of the request.                              *)
(***************************************************************************)
\* the texts of the ingested projects: not blank, of bounded length
RepeatTexts == {text \in Texts : Len(text) <= MaxRepeatTextLen /\ ~IsBlank(text)}

\* the project as the ingestion of a text leaves it, whose cover build 2
\* has completed
RepeatProjects ==
    {IF build = 1
     THEN Merge(NewProject(1), TextProjectUpdates(text))
     ELSE FinalProjectState(NewProject(1), text,
                            PromptFor("cover", "", FALSE, FALSE), VideoUrl) :
        text \in RepeatTexts}

\* a deterministic service: its answer is a function of the payload (the
\* scene and whether the task carries feedback), with or without the
\* title and the author for a cover
StubServices == [titled : BOOLEAN, authored : BOOLEAN]
StubAnswer(stub, payload) ==
    LET sceneId == payload.text.sceneId
        feedback ==
            IF payload.text.taskInstruction = TaskInstruction(sceneId, "")
            THEN "" ELSE "bigger smile"
    IN  IF payload = EmptyObj THEN EmptyObj
        ELSE PromptFor(sceneId, feedback,
                       stub.titled /\ sceneId = "cover",
                       stub.authored /\ sceneId = "cover")

\* One run of handleGenerate to its updateProject: the payload sent (none
\* in build 1, which simulates the generation), the prompt obtained and
\* the project as patched.
GenerateOnce(stub, project, sceneId, image, feedback) ==
    LET payload == IF build = 1 THEN EmptyObj
                   ELSE Payload(project, sceneId, image, feedback)
        newPrompt == IF build = 1 THEN MockPrompt(sceneId)
                     ELSE StubAnswer(stub, payload)
    IN  [payload |-> payload,
         prompt |-> newPrompt,
         project |-> Merge(project,
                           GenerateUpdates(project, sceneId, newPrompt,
                                           VideoUrl))]

\* handleGenerate twice on a scene that is pending at the first run
GenerateTwice(stub, project, sceneId, image, feedback) ==
    /\ probe = NoProbe
    /\ sceneId \in DOMAIN project.scenes
    /\ NotCompleted(project, sceneId)
    /\ ~MissingIllustration(sceneId, image, FALSE)
    /\ build = 1 => stub = [titled |-> FALSE, authored |-> FALSE]
    /\ LET first == GenerateOnce(stub, project, sceneId, image, feedback)
           second == GenerateOnce(stub, first.project, sceneId, image,
                                  feedback)
       IN  probe' = [op |-> "generateTwice",
                     project |-> project,
                     sceneId |-> sceneId,
                     image |-> image,
                     feedback |-> feedback,
                     first |-> first,
                     second |-> second]
    /\ UNCHANGED <<build, projects, storage, created, currentProjectId,
                   projectToDelete, currentSceneId, error, ui, tasks,
                   fileSet, budget, last>>

NextRepeat ==
    \E stub \in StubServices : \E project \in RepeatProjects :
        \E sceneId \in {"cover", "1", "2", "end"} :
            \E image \in {"", "jpeg"} : \E feedback \in {"", "bigger smile"} :
                GenerateTwice(stub, project, sceneId, image, feedback)

RepeatSpec == Init /\ [][NextRepeat]_vars

(***************************************************************************)
(* C20: idempotence.  When generate is called twice in sequence on a scene *)
(* that starts pending, with the same inputs and a deterministic service,  *)
(* the first call has changed the scene's status, prompt and videoUrl, yet *)
(* the request built for the second call is the request of the first, and  *)
(* the second call yields the prompt the first yielded.                    *)
(***************************************************************************)
SecondRequestIdentical ==
    (probe.op = "generateTwice") =>
        LET before == SceneOf(probe.project, probe.sceneId)
            after == SceneOf(probe.first.project, probe.sceneId)
        IN  /\ before.status = "pending"
            /\ after.status = "completed"
            /\ after.prompt = probe.first.prompt
            /\ after.videoUrl = VideoUrl
            /\ probe.second.payload = probe.first.payload
            /\ probe.second.prompt = probe.first.prompt

\* a page with a text, regenerated with its illustration and feedback
SecondRequestIdenticalWitness ==
    /\ probe.op = "generateTwice"
    /\ build = 2
    /\ probe.sceneId = "1"
    /\ probe.image = "jpeg"
    /\ probe.feedback = "bigger smile"
    /\ probe.first.payload.text.sceneText = <<"a">>
    /\ probe.second.prompt = PromptFor("1", "bigger smile", FALSE, FALSE)

(***************************************************************************)
(* The prompt-builder specification: buildApiPromptText called up to       *)
(* MaxBuilderCalls times in a row, each time on any project of             *)
(* BuilderProjects, any scene id and any feedback; probe keeps the calls.  *)
(***************************************************************************)
\* the story text of the builder's ingested projects: two pages
BuilderTexts == {<<"a", NL, NL, "b">>}

\* a project not ingested, the ingested ones, and those with the first page
\* completed as well
BuilderProjects ==
    {NewProject(1)}
    \cup {FinalProjectState(NewProject(1), text,
                            PromptFor("cover", "", TRUE, TRUE), VideoUrl) :
             text \in BuilderTexts}
    \cup {LET ingested == FinalProjectState(NewProject(1), text,
                              PromptFor("cover", "", FALSE, FALSE), VideoUrl)
          IN  Merge(ingested,
                    GenerateUpdates(ingested, "1",
                                    PromptFor("1", "", FALSE, FALSE),
                                    VideoUrl)) :
             text \in BuilderTexts}

\* the feedback texts the user types: none, a sentence, a single space
Feedbacks == {"", "bigger smile", " "}

\* the calls made so far
BuilderCalls == IF probe.op = "buildApiPromptText" THEN probe.calls ELSE <<>>

CallBuildApiPromptText(project, sceneId, feedback) ==
    /\ build = 2
    /\ probe.op \in {"none", "buildApiPromptText"}
    /\ Len(BuilderCalls) < MaxBuilderCalls
    /\ LET call == BuildCall(project, sceneId, feedback)
       IN  probe' = [op |-> "buildApiPromptText",
                     calls |-> Append(BuilderCalls,
                                      [project |-> project,
                                       sceneId |-> sceneId,
                                       feedback |-> feedback,
                                       returned |-> call.returned,
                                       projectAfter |-> call.project])]
    /\ UNCHANGED <<build, projects, storage, created, currentProjectId,
                   projectToDelete, currentSceneId, error, ui, tasks,
                   fileSet, budget, last>>

NextBuilder ==
    \E project \in BuilderProjects : \E sceneId \in {"cover", "1", "2", "end"} :
        \E feedback \in Feedbacks :
            CallBuildApiPromptText(project, sceneId, feedback)

BuilderSpec == Init /\ [][NextBuilder]_vars

Contains(s, sub) ==
    \E i \in 1..(Len(s) - Len(sub) + 1) : SubSeq(s, i, i + Len(sub) - 1) = sub

\* the kind of a scene id, in the specification's words
KindOf(sceneId) ==
    IF sceneId = "cover" THEN "cover"
    ELSE IF sceneId = "end" THEN "end"
    ELSE "page"

\* an instruction asks for the task of a kind of scene
AsksFor(kind, sceneId, instruction) ==
    IF kind = "cover"
    THEN /\ Contains(instruction, "book cover image")
         /\ Contains(instruction, "'extracted_title'")
         /\ Contains(instruction, "'extracted_author'")
    ELSE IF kind = "end"
    THEN /\ Contains(instruction, "concluding animation prompt")
         /\ Contains(instruction, "Use the full story context")
    ELSE /\ Contains(instruction, "attached illustration")
         /\ Contains(instruction, "corresponding text for Page " \o sceneId \o ".")

(***************************************************************************)
(* C22: the instruction built for a scene.  In the last call the task       *)
(* instruction contains the regeneration directive exactly when the         *)
(* feedback is not empty, and then the feedback itself between quotes; it   *)
(* asks for the task of the scene's kind (cover: the title sequence and the *)
(* extraction of title and author; end: the concluding scene from the full  *)
(* story context; page: the illustration and the text of that page) and of  *)
(* no other kind; and the scene text it goes with is the page's text for a  *)
(* page and empty for the cover and the end.                                *)
(***************************************************************************)
InstructionByKindAndFeedback ==
    \A i \in {Len(BuilderCalls)} \ {0} :
        LET call == BuilderCalls[i]
            instruction == call.returned.taskInstruction
        IN  /\ Contains(instruction, "REGENERATION FEEDBACK:")
                <=> call.feedback # ""
            /\ call.feedback # ""
                => Contains(instruction,
                            "user feedback into account: \""
                                \o call.feedback \o "\"")
            /\ \A kind \in {"cover", "end", "page"} :
                   AsksFor(kind, call.sceneId, instruction)
                       <=> kind = KindOf(call.sceneId)
            /\ call.returned.sceneId = call.sceneId
            /\ call.returned.sceneText
                   = IF KindOf(call.sceneId) = "page"
                        /\ call.sceneId \in DOMAIN call.project.scenes
                     THEN call.project.scenes[call.sceneId].text
                     ELSE <<>>

\* the second page regenerated with feedback
InstructionByKindAndFeedbackWitness ==
    /\ Len(BuilderCalls) >= 1
    /\ BuilderCalls[1].sceneId = "2"
    /\ BuilderCalls[1].feedback = "bigger smile"
    /\ BuilderCalls[1].returned.sceneText = <<"b">>
    /\ Contains(BuilderCalls[1].returned.taskInstruction,
                "for Page 2. Generate a detailed animation prompt")
    /\ Contains(BuilderCalls[1].returned.taskInstruction,
                "into account: \"bigger smile\"")

(***************************************************************************)
(* C23: cancelling a regeneration.  When the user has just left the        *)
(* regenerating mode of the scene on display while a regeneration of that  *)
(* scene is in flight, and the regeneration then resolves with a prompt,   *)
(* the step leaves the scene's prompt and videoUrl as they were.           *)
(***************************************************************************)
CancelledRegenerationAbandoned ==
    [][\A t \in Running :
          (/\ last = "toggleRegenerate"
           /\ ~ui.isRegenerating
           /\ tasks[t].kind = "generate"
           /\ tasks[t].isRegenerating
           /\ ~tasks[t].uiLive
           /\ tasks[t].pid = currentProjectId
           /\ tasks[t].sceneId = currentSceneId
           /\ Mounted
           /\ last' = "generateCommitted"
           /\ Forget(tasks') = Forget(Without(t))
           /\ tasks[t].pid \in DOMAIN projects')
             => LET before == SceneOf(projects[tasks[t].pid], tasks[t].sceneId)
                    after == SceneOf(projects'[tasks[t].pid], tasks[t].sceneId)
                IN  /\ after.prompt = before.prompt
                    /\ after.videoUrl = before.videoUrl]_vars

(***************************************************************************)
(* The loading specification: the value of localStorage's                  *)
(* 'animation-projects' read when App mounts (build 2: useLocalStorage's   *)
(* initializer; build 1: App's load effect), on what JSON.stringify wrote  *)
(* for a list of projects, on such a text with a character lost, and on    *)
(* other texts.                                                            *)
(***************************************************************************)
\* a text of the model's characters as a JSON string
RECURSIVE StringifyText(_)
StringifyText(s) ==
    IF s = <<>> THEN ""
    ELSE (IF Head(s) = NL THEN "\\n" ELSE Head(s)) \o StringifyText(Tail(s))

\* JSON.stringify of a scene
StringifyScene(scene) ==
    "{\"status\":\"" \o scene.status \o "\""
    \o (IF "text" \in DOMAIN scene
        THEN ",\"text\":\"" \o StringifyText(scene.text) \o "\"" ELSE "")
    \o (IF "prompt" \in DOMAIN scene
        THEN ",\"prompt\":" \o JSONStringify(scene.prompt) ELSE "")
    \o (IF "videoUrl" \in DOMAIN scene
        THEN ",\"videoUrl\":\"" \o scene.videoUrl \o "\"" ELSE "")
    \o "}"

\* the keys of a scene map in the order JavaScript enumerates them: the
\* integer keys ascending, then cover and end
SceneKeys(scenes) ==
    SelectSeq(DigitStr \o <<"cover", "end">>, LAMBDA k : k \in DOMAIN scenes)

RECURSIVE StringifyScenes(_, _)
StringifyScenes(scenes, keys) ==
    IF keys = <<>> THEN ""
    ELSE "\"" \o Head(keys) \o "\":" \o StringifyScene(scenes[Head(keys)])
         \o (IF Len(keys) > 1 THEN "," ELSE "")
         \o StringifyScenes(scenes, Tail(keys))

\* JSON.stringify of a project
StringifyProject(project) ==
    "{\"id\":" \o Str(project.id)
    \o ",\"name\":\"" \o project.name \o "\""
    \o ",\"author\":\"" \o project.author \o "\""
    \o ",\"storyText\":\"" \o StringifyText(project.storyText) \o "\""
    \o ",\"totalPages\":" \o (IF project.totalPages = 0 THEN "0"
                              ELSE Str(project.totalPages))
    \o ",\"scenes\":{"
    \o StringifyScenes(project.scenes, SceneKeys(project.scenes)) \o "}}"

\* JSON.stringify of a list of projects
RECURSIVE StringifyItems(_)
StringifyItems(list) ==
    IF list = <<>> THEN ""
    ELSE StringifyProject(Head(list))
         \o (IF Len(list) > 1 THEN "," ELSE "")
         \o StringifyItems(Tail(list))
StringifyList(list) == "[" \o StringifyItems(list) \o "]"

\* the projects a stored list can hold: as created, and ingested
StoredProjects ==
    {NewProject(1), NewProject(2)}
    \cup {IF build = 1
          THEN Merge(NewProject(id), TextProjectUpdates(<<"a", NL, NL, "b">>))
          ELSE FinalProjectState(NewProject(id), <<"a", NL, NL>>,
                                 PromptFor("cover", "", TRUE, TRUE), VideoUrl) :
             id \in {1, 2}}

\* the lists the application can have saved
StoredLists ==
    UNION {[1..n -> StoredProjects] : n \in 0..MaxStoredProjects}

\* JSON values that are no list of projects, each with its text
OtherJson ==
    { [text |-> "{}", value |-> [type |-> "object"]],
      [text |-> "42", value |-> [type |-> "number"]],
      [text |-> "null", value |-> [type |-> "null"]],
      [text |-> "\"x\"", value |-> [type |-> "string"]],
      [text |-> "[1]",
       value |-> [type |-> "array", items |-> <<[number |-> 1]>>]] }

\* what localStorage.getItem can return: null, or a text (a saved list,
\* such a text without its last or its first character, another JSON
\* value, the empty text, a text that is no JSON)
StoredItems ==
    {[present |-> FALSE, text |-> ""]}
    \cup {[present |-> TRUE, text |-> StringifyList(list)] :
             list \in StoredLists}
    \cup {[present |-> TRUE,
           text |-> SubSeq(StringifyList(list), 1,
                           Len(StringifyList(list)) - 1)] :
             list \in StoredLists}
    \cup {[present |-> TRUE,
           text |-> SubSeq(StringifyList(list), 2,
                           Len(StringifyList(list)))] :
             list \in StoredLists}
    \cup {[present |-> TRUE, text |-> v.text] : v \in OtherJson}
    \cup {[present |-> TRUE, text |-> t] : t \in {"", "undefined"}}

\* JSON.parse of a stored text: ok is FALSE where it throws
ParseStored(text) ==
    LET lists == {list \in StoredLists : StringifyList(list) = text}
        others == {v \in OtherJson : v.text = text}
    IN  IF lists # {}
        THEN [ok |-> TRUE,
              value |-> [type |-> "array",
                         items |-> CHOOSE list \in lists : TRUE]]
        ELSE IF others # {}
        THEN [ok |-> TRUE, value |-> (CHOOSE v \in others : TRUE).value]
        ELSE [ok |-> FALSE, value |-> [type |-> "undefined"]]

\* useLocalStorage's initialValue, build 1's useState([])
InitialValue == [type |-> "array", items |-> <<>>]

\* The value `projects` gets from the stored item: item ? JSON.parse(item) :
\* initialValue inside try, initialValue in the catch (build 1:
\* if (saved) setProjects(JSON.parse(saved)) inside try).  An empty text is
\* falsy.  threw says whether an exception leaves the loader.
LoadProjects(item) ==
    IF ~item.present \/ item.text = ""
    THEN [threw |-> FALSE, value |-> InitialValue]
    ELSE LET parsed == ParseStored(item.text)
         IN  IF parsed.ok THEN [threw |-> FALSE, value |-> parsed.value]
             ELSE [threw |-> FALSE, value |-> InitialValue]

\* App mounts with item in localStorage
LoadOnMount(item) ==
    /\ probe = NoProbe
    /\ probe' = [op |-> "load", item |-> item, out |-> LoadProjects(item)]
    /\ UNCHANGED <<build, projects, storage, created, currentProjectId,
                   projectToDelete, currentSceneId, error, ui, tasks,
                   fileSet, budget, last>>

NextLoad == \E item \in StoredItems : LoadOnMount(item)

LoadSpec == Init /\ [][NextLoad]_vars

\* a value is a project object
IsProject(x) == DOMAIN x = DOMAIN NewProject(1)

\* a stored item is a saved list of projects
IsSavedList(item) ==
    item.present /\ \E list \in StoredLists : StringifyList(list) = item.text

(***************************************************************************)
(* C24: loading the persisted projects never throws and yields a list of   *)
(* projects; an absent key and every stored text that is not a saved list  *)
(* of projects (unparsable, or JSON of another shape) yield the empty      *)
(* list.                                                                   *)
(***************************************************************************)
LoadYieldsList ==
    (probe.op = "load") =>
        /\ ~probe.out.threw
        /\ probe.out.value.type = "array"
        /\ \A i \in 1..Len(probe.out.value.items) :
               IsProject(probe.out.value.items[i])
        /\ ~IsSavedList(probe.item) => probe.out.value.items = <<>>

\* the project on display is not ingested, and then the workspace shows no
\* navigation button and the uploader, with no SceneGeneratorUI mounted
NotIngestedIdle ==
    (Mounted /\ CurrentProject.totalPages = 0) =>
        /\ NavItems(CurrentProject) = <<>>
        /\ Component = "LayoutUploader"
        /\ Slot = "none"

(***************************************************************************)
(* C25: while the project on display has not been ingested (totalPages =   *)
(* 0), NavItems is empty and the uploader is shown with no generator       *)
(* mounted; a step taken from such a state is no navigation and no start   *)
(* or refusal of a generation, any handler it starts is an ingestion, and  *)
(* if the project is still on display and not ingested after the step the  *)
(* current scene is the one it was.                                        *)
(***************************************************************************)
NotIngestedOnlyIngestion ==
    [][/\ NotIngestedIdle
       /\ NotIngestedIdle'
       /\ (Mounted /\ CurrentProject.totalPages = 0)
            => /\ last' \notin {"navClick", "goToNextScene",
                                "generateStarted", "generateRefused",
                                "toggleRegenerate"}
               /\ Len(tasks') > Len(tasks)
                    => tasks'[Len(tasks')].kind = "ingest"
               /\ (/\ currentProjectId' = currentProjectId
                   /\ currentProjectId \in DOMAIN projects'
                   /\ projects'[currentProjectId].totalPages = 0)
                    => currentSceneId' = currentSceneId]_vars

\* an upload is in flight for the project on display, which is not ingested
NotIngestedOnlyIngestionWitness ==
    /\ Mounted
    /\ CurrentProject.totalPages = 0
    /\ Len(tasks) = 1
    /\ tasks[1].kind = "ingest"
    /\ tasks[1].pid = currentProjectId
    /\ ui.isFileParsing

\* the top-level fields no patch of a handler names
FieldsNotPatched(task) ==
    IF task.kind = "generate"
    THEN IF task.sceneId = "cover" THEN {"id", "storyText", "totalPages"}
         ELSE {"id", "name", "author", "storyText", "totalPages"}
    ELSE IF build = 1 THEN {"id"} ELSE {}

(***************************************************************************)
(* C26: the frame of a patch.  In the step in which a handler commits its  *)
(* patch to project P, relative to the project list of the moment: the     *)
(* list has the same projects after the step, every project other than P   *)
(* is unchanged, every top-level field of P that the patch does not name   *)
(* is unchanged, and the scenes of P are those the handler built; whether  *)
(* the handler was started in the current render or in an earlier one.     *)
(***************************************************************************)
PatchFrame ==
    [][\A t \in Running :
          (/\ last' \in {"generateCommitted", "ingestCommitted"}
           /\ Forget(tasks') = Forget(Without(t)))
             => /\ DOMAIN projects' = DOMAIN projects
                /\ \A p \in (DOMAIN projects) \ {tasks[t].pid} :
                       projects'[p] = projects[p]
                /\ tasks[t].pid \in DOMAIN projects
                     => /\ \A f \in FieldsNotPatched(tasks[t]) :
                               projects'[tasks[t].pid][f]
                                   = projects[tasks[t].pid][f]
                        /\ tasks[t].kind = "generate"
                             => \A id \in DOMAIN tasks[t].project.scenes
                                           \ {tasks[t].sceneId} :
                                    projects'[tasks[t].pid].scenes[id]
                                        = tasks[t].project.scenes[id]]_vars

(***************************************************************************)
(* C27: the scene ids of an ingested project are fixed.  In every step, a  *)
(* project that is ingested before the step and still exists after it has  *)
(* the same set of scene ids after the step as before.                     *)
(***************************************************************************)
SceneIdsFixed ==
    [][\A p \in (DOMAIN projects) \cap (DOMAIN projects') :
          projects[p].storyText # <<>>
            => DOMAIN projects'[p].scenes = DOMAIN projects[p].scenes]_vars

\* a generation attempt is in flight
Generating == \E t \in Running : tasks[t].kind = "generate"

(***************************************************************************)
(* C28: every generation attempt ends.  With a service that answers, a     *)
(* state with a generation in flight leads to a state with none; the step  *)
(* in which an attempt ends is a commit after which its scene is completed *)
(* (while the project exists) or a failure after which its error is shown  *)
(* (while its workspace is mounted), and it clears isLoading of its        *)
(* generator if that is still mounted; and whenever no generation is in    *)
(* flight isLoading is false, so that Generate can be clicked again.       *)
(* (Attempts that differ in nothing but what is still mounted are not told *)
(* apart: one of them is the attempt that ended.)                          *)
(***************************************************************************)
GenerationEnds ==
    /\ Generating ~> ~Generating
    /\ [](~Generating => ~ui.isLoading)
    /\ [][LET Ended == {t \in Running :
                          /\ tasks[t].kind = "generate"
                          /\ Forget(tasks') = Forget(Without(t))}
         IN  (Len(tasks') < Len(tasks) /\ Ended # {})
               => \E t \in Ended :
                    /\ last' \in {"generateCommitted", "generateFailed"}
                    /\ (last' = "generateCommitted"
                        /\ tasks[t].pid \in DOMAIN projects')
                         => IsCompleted(projects'[tasks[t].pid],
                                        tasks[t].sceneId)
                    /\ (last' = "generateFailed" /\ tasks[t].wsLive)
                         => /\ error' # ""
                            /\ projects' = projects
                    /\ tasks[t].uiLive => ~ui'.isLoading]_vars

\* an attempt has failed, its error is shown and Generate can be clicked
GenerationEndsWitness ==
    /\ last = "generateFailed"
    /\ ~Generating
    /\ error # ""
    /\ Slot # "none"
    /\ ~ui.isLoading

(***************************************************************************)
(* C29: the completed scenes of an ingested project are a prefix of its    *)
(* navigation list: in every reachable state no completed scene stands at  *)
(* a place after that of a scene that is not completed.                    *)
(***************************************************************************)
CompletedIsPrefix ==
    \A p \in DOMAIN projects :
        projects[p].storyText # <<>>
          => LET items == NavItems(projects[p])
             IN  \A i, j \in 1..Len(items) :
                     (i < j /\ IsCompleted(projects[p], items[j]))
                       => IsCompleted(projects[p], items[i])

(***************************************************************************)
(* C30: scene status is monotonic.  No step takes a scene that the list    *)
(* (and localStorage, which every step leaves equal to it) holds as        *)
(* completed back to a scene that is not completed, as long as its project *)
(* is in the list.                                                         *)
(***************************************************************************)
StatusMonotonic ==
    [][\A p \in (DOMAIN projects) \cap (DOMAIN projects') :
         \A s \in DOMAIN projects[p].scenes :
             IsCompleted(projects[p], s) => IsCompleted(projects'[p], s)]_vars

(***************************************************************************)
(* C31: no lost update between scenes.  When a generation for scene X      *)
(* commits, the record of every other scene of its project is after the    *)
(* commit what the list held immediately before it.                        *)
(***************************************************************************)
NoLostUpdate ==
    [][\A t \in Running :
         (/\ tasks[t].kind = "generate"
          /\ last' = "generateCommitted"
          /\ Forget(tasks') = Forget(Without(t))
          /\ tasks[t].pid \in (DOMAIN projects) \cap (DOMAIN projects'))
           => \A y \in (DOMAIN projects[tasks[t].pid].scenes)
                          \ {tasks[t].sceneId} :
                  /\ y \in DOMAIN projects'[tasks[t].pid].scenes
                  /\ projects'[tasks[t].pid].scenes[y]
                       = projects[tasks[t].pid].scenes[y]]_vars

(***************************************************************************)
(* C32: a deleted project never reappears.  A project that has been        *)
(* created and is no longer in the list (only confirmDeleteProject removes *)
(* one) is after no step in the list or in localStorage again.             *)
(***************************************************************************)
DeletedStaysDeleted ==
    [][\A p \in 1..created :
         p \notin DOMAIN projects
           => p \notin DOMAIN projects' /\ p \notin DOMAIN storage']_vars

(***************************************************************************)
(* C33: a generation attempt is started only for a reachable scene.  In    *)
(* the step in which handleGenerate starts an attempt, the scene of the    *)
(* attempt is in the navigation list of its project and every scene before *)
(* it in that list is completed; for the end scene these are the cover and *)
(* all numbered pages.                                                     *)
(***************************************************************************)
StartedOnlyWhenReachable ==
    [][last' = "generateStarted"
         => LET started == tasks'[Len(tasks')]
                index == IndexOfScene(started.project, started.sceneId)
            IN  /\ started.kind = "generate"
                /\ started.project = CurrentProject
                /\ started.sceneId = currentSceneId
                /\ index # -1
                /\ ReachableIndex(CurrentProject, index)]_vars

\* an attempt for the end scene has been started
StartedOnlyWhenReachableWitness ==
    /\ last = "generateStarted"
    /\ tasks[Len(tasks)].sceneId = "end"
    /\ tasks[Len(tasks)].pid \in DOMAIN projects
    /\ IsCompleted(projects[tasks[Len(tasks)].pid], "cover")
    /\ IsCompleted(projects[tasks[Len(tasks)].pid], "1")

\* the prompt is one made for the scene (by the service or the simulation)
PromptIsFor(prompt, sceneId) ==
    prompt.scene_summary \in {"scene " \o sceneId,
                              "scene " \o sceneId \o " revised",
                              "Mock animation for " \o sceneId}

IngestedIndicatorsAgree ==
    \A p \in DOMAIN projects :
        /\ (projects[p].storyText # <<>>) <=> (projects[p].totalPages > 0)
        /\ (projects[p].totalPages > 0) <=> (DOMAIN projects[p].scenes # {})

\* an ingested project, all three indicators set
IngestedIndicatorsAgreeWitness ==
    \E p \in DOMAIN projects :
        /\ projects[p].storyText # <<>>
        /\ projects[p].totalPages > 0
        /\ DOMAIN projects[p].scenes # {}

=============================================================================
